---- MODULE Spec2Model ----
(***************************************************************************)
(* A model of mlogin (cmd/mlogin): the background-item mutator             *)
(* deleteBackgroundItem, the aggregator listBackgroundItems and the        *)
(* interactive browser uiModel with its Update / rebuildTable handlers.    *)
(*                                                                         *)
(* Go strings are modelled as sequences of one-character strings, so that  *)
(* strings.ToLower, strings.Contains, strings.TrimSpace and the byte-wise  *)
(* comparison < are computed, not assumed.                                 *)
(***************************************************************************)
EXTENDS Integers, Sequences, FiniteSets, Bags, TLC

VARIABLES
    del,        \* the running deleteBackgroundItem call (locals, position, result)
    fs,         \* the set of absolute paths that exist on disk
    svcLoaded,  \* whether the launchd service named by del.label is loaded
    lst,        \* one listBackgroundItems call: its environment and its result
    m,          \* the browser state: the uiModel value held by the event loop
    pending,    \* bag of commands (tea.Cmd) in flight, each with its issuer
    lastMsg,    \* the message the last Update call processed
    lastCmd,    \* the command the last Update call returned
    running,    \* FALSE once tea.Quit has been returned
    prompt,     \* history of the open / last confirmation prompt
    nEvents,    \* the number of messages the event loop has processed
    cli         \* the command-line operation under way: its arguments, position and result

vars == <<del, fs, svcLoaded, lst, m, pending, lastMsg, lastCmd, running, prompt, nEvents, cli>>

(***************************************************************************)
(* Strings                                                                 *)
(***************************************************************************)

\* The printable ASCII characters in code order: 32 (space) to 95 (_), and
\* 97 (a) to 126 (~).
PrintableLow == <<" ","!","\"","#","$","%","&","'","(",")","*","+",",","-",".","/","0","1","2","3","4","5","6","7","8","9",":",";","<","=",">","?","@","A","B","C","D","E","F","G","H","I","J","K","L","M","N","O","P","Q","R","S","T","U","V","W","X","Y","Z","[","\\","]","^","_">>
PrintableHigh == <<"a","b","c","d","e","f","g","h","i","j","k","l","m","n","o","p","q","r","s","t","u","v","w","x","y","z","{","|","}","~">>

\* The byte value of a character.
Ord(c) ==
    IF c = "\t" THEN 9
    ELSE IF c = "\n" THEN 10
    ELSE IF c = "\r" THEN 13
    ELSE IF \E i \in 1..Len(PrintableLow) : PrintableLow[i] = c
    THEN 31 + (CHOOSE i \in 1..Len(PrintableLow) : PrintableLow[i] = c)
    ELSE 96 + (CHOOSE i \in 1..Len(PrintableHigh) : PrintableHigh[i] = c)

MinOf(S) == CHOOSE x \in S : \A y \in S : x <= y
MaxOf(S) == CHOOSE x \in S : \A y \in S : x >= y

\* max(a, b int)
max(a, b) == IF a > b THEN a ELSE b

ToLowerChar(c) ==
    LET o == Ord(c)
    IN  IF o >= 65 /\ o <= 90 THEN PrintableHigh[o + 32 - 96] ELSE c

\* strings.ToLower
ToLower(s) == [i \in 1..Len(s) |-> ToLowerChar(s[i])]

\* strings.Contains
Contains(s, sub) ==
    \E i \in 0..(Len(s) - Len(sub)) : SubSeq(s, i + 1, i + Len(sub)) = sub

\* strings.HasSuffix
HasSuffix(s, suf) ==
    Len(s) >= Len(suf) /\ SubSeq(s, Len(s) - Len(suf) + 1, Len(s)) = suf

\* strings.HasPrefix
HasPrefix(s, pre) ==
    Len(s) >= Len(pre) /\ SubSeq(s, 1, Len(pre)) = pre

IsSpace(c) == c \in {" ", "\t", "\n", "\r"}

\* strings.TrimSpace
TrimSpace(s) ==
    LET keep == {i \in 1..Len(s) : ~IsSpace(s[i])}
    IN  IF keep = {} THEN <<>> ELSE SubSeq(s, MinOf(keep), MaxOf(keep))

\* The Go comparison a < b of two strings (byte-wise lexicographic).
StrLess(a, b) ==
    LET n == IF Len(a) < Len(b) THEN Len(a) ELSE Len(b)
        d == {i \in 1..n : a[i] # b[i]}
    IN  IF d = {} THEN Len(a) < Len(b)
        ELSE Ord(a[MinOf(d)]) < Ord(b[MinOf(d)])

Digits == <<"0","1","2","3","4","5","6","7","8","9">>

RECURSIVE Itoa(_)
\* the %d of fmt, for a non-negative int
Itoa(n) == IF n < 10 THEN <<Digits[n + 1]>> ELSE Itoa(n \div 10) \o <<Digits[(n % 10) + 1]>>

\* the %t of fmt
FormatBool(b) == IF b THEN <<"t","r","u","e">> ELSE <<"f","a","l","s","e">>

\* The error value: nil, or an error with its message.
Nil == [isNil |-> TRUE, msg |-> <<>>]
Err(msg) == [isNil |-> FALSE, msg |-> msg]

(***************************************************************************)
(* launchctl and the mutator deleteBackgroundItem                          *)
(***************************************************************************)

\* The message of the error runLaunchctl returns for a failed run:
\* "<exit error>: <trimmed stderr>", or the exit error alone when stderr is blank.
runLaunchctlErr(exitText, stderr) ==
    LET msg == TrimSpace(stderr)
    IN  IF msg # <<>> THEN Err(exitText \o <<":"," ">> \o msg) ELSE Err(exitText)

\* launchDomain(scope): [err, domain]; uid is user.Current's uid when userOk.
launchDomain(scope, userOk, uid) ==
    LET s == ToLower(scope)
    IN  IF s = <<"s","y","s","t","e","m">> THEN [err |-> Nil, domain |-> <<"s","y","s","t","e","m">>]
        ELSE IF s = <<"u","s","e","r">>
             THEN IF userOk THEN [err |-> Nil, domain |-> <<"g","u","i","/">> \o Itoa(uid)]
                  ELSE [err |-> Err(<<"u","s","e","r",":"," ","u","n","k","n","o","w","n"," ","u","s","e","r","i","d">>), domain |-> <<>>]
        ELSE [err |-> Err(<<"s","c","o","p","e"," ","m","u","s","t"," ","b","e"," ","u","s","e","r"," ","o","r"," ","s","y","s","t","e","m">>), domain |-> <<>>]

\* A faulty classifier, which compares the phrases as they are written.
isIgnorableBootoutErrorCaseSensitive(err) ==
    \/ Contains(err.msg, <<"n","o"," ","s","u","c","h"," ","p","r","o","c","e","s","s">>)
    \/ Contains(err.msg, <<"s","e","r","v","i","c","e"," ","c","o","u","l","d"," ","n","o","t"," ","b","e"," ","f","o","u","n","d">>)
    \/ Contains(err.msg, <<"n","o","t"," ","f","o","u","n","d">>)
    \/ Contains(err.msg, <<"d","o","m","a","i","n"," ","d","o","e","s"," ","n","o","t"," ","s","u","p","p","o","r","t"," ","s","p","e","c","i","f","i","e","d"," ","a","c","t","i","o","n">>)

isIgnorableBootoutError(err) ==
    LET msg == ToLower(err.msg)
    IN  \/ Contains(msg, <<"n","o"," ","s","u","c","h"," ","p","r","o","c","e","s","s">>)
        \/ Contains(msg, <<"s","e","r","v","i","c","e"," ","c","o","u","l","d"," ","n","o","t"," ","b","e"," ","f","o","u","n","d">>)
        \/ Contains(msg, <<"n","o","t"," ","f","o","u","n","d">>)
        \/ Contains(msg, <<"d","o","m","a","i","n"," ","d","o","e","s"," ","n","o","t"," ","s","u","p","p","o","r","t"," ","s","p","e","c","i","f","i","e","d"," ","a","c","t","i","o","n">>)

\* filepath.Abs: an absolute path is kept, a relative one is joined to the
\* working directory, which must be known.
IsAbs(p) == Len(p) > 0 /\ p[1] = "/"
Cwd == <<"/","w">>
filepathAbs(p, cwdOk) ==
    IF IsAbs(p) THEN [err |-> Nil, path |-> p]
    ELSE IF cwdOk THEN [err |-> Nil, path |-> Cwd \o <<"/">> \o p]
    ELSE [err |-> Err(<<"g","e","t","w","d",":"," ","n","o"," ","s","u","c","h"," ","f","i","l","e"," ","o","r"," ","d","i","r","e","c","t","o","r","y">>), path |-> <<>>]

\* What the environment may answer.
DelLabels == {<<"c","o","m",".","f","o","o",".","a","g","e","n","t">>, <<"c","o","m",".","b","a","r">>}
DelPaths == {<<"/","a",".","p","l","i","s","t">>, <<"b",".","p","l","i","s","t">>}
DelScopes == {<<"u","s","e","r">>, <<"S","y","s","t","e","m">>, <<"a","l","l">>}
DelUids == {0, 501}
AbsPaths == {<<"/","a",".","p","l","i","s","t">>, <<"/","w","/","b",".","p","l","i","s","t">>}
ExitTexts == {<<"e","x","i","t"," ","s","t","a","t","u","s"," ","3">>, <<"e","x","i","t"," ","s","t","a","t","u","s"," ","1">>}
BootoutStderrs ==
    { <<>>,
      <<"B","o","o","t","-","o","u","t"," ","f","a","i","l","e","d",":"," ","3",":"," ","N","o"," ","s","u","c","h"," ","p","r","o","c","e","s","s","\n">>,
      <<"B","o","o","t","-","o","u","t"," ","f","a","i","l","e","d",":"," ","5",":"," ","I","n","p","u","t","/","o","u","t","p","u","t"," ","e","r","r","o","r","\n">>,
      <<"B","o","o","t","-","o","u","t"," ","f","a","i","l","e","d",":"," ","1",":"," ","O","p","e","r","a","t","i","o","n"," ","n","o","t"," ","p","e","r","m","i","t","t","e","d","\n">>,
      <<"C","o","u","l","d"," ","n","o","t"," ","f","i","n","d"," ","s","e","r","v","i","c","e",":"," ","S","e","r","v","i","c","e"," ","C","o","u","l","d"," ","N","o","t"," ","B","e"," ","F","o","u","n","d","\n">>,
      <<"B","o","o","t","-","o","u","t"," ","f","a","i","l","e","d",":"," ","1","2","5",":"," ","D","o","m","a","i","n"," ","d","o","e","s"," ","n","o","t"," ","s","u","p","p","o","r","t"," ","s","p","e","c","i","f","i","e","d"," ","a","c","t","i","o","n","\n">>,
      <<"p","e","r","m","i","s","s","i","o","n"," ","d","e","n","i","e","d">> }

DelIdle ==
    [pc |-> "idle", label |-> <<>>, plistPath |-> <<>>, scope |-> <<>>,
     cwdOk |-> TRUE, userOk |-> TRUE, uid |-> 0,
     absPath |-> <<>>, domain |-> <<>>, bootoutDone |-> FALSE, bootoutErr |-> Nil,
     result |-> Nil, removeCalls |-> 0, removeOutcome |-> "", fs0 |-> {}]

\* Lines 295-298: absPath, err := filepath.Abs(plistPath)
DelAbs ==
    /\ del.pc = "abs"
    /\ LET r == filepathAbs(del.plistPath, del.cwdOk)
       IN  del' = IF r.err.isNil
                  THEN [del EXCEPT !.pc = "domain", !.absPath = r.path]
                  ELSE [del EXCEPT !.pc = "done", !.result = r.err]
    /\ UNCHANGED <<fs, svcLoaded, lst, m, pending, lastMsg, lastCmd, running, prompt, nEvents, cli>>

\* Lines 299-302: domain, err := launchDomain(scope)
DelDomain ==
    /\ del.pc = "domain"
    /\ LET r == launchDomain(del.scope, del.userOk, del.uid)
       IN  del' = IF r.err.isNil
                  THEN [del EXCEPT !.pc = "bootout", !.domain = r.domain]
                  ELSE [del EXCEPT !.pc = "done", !.result = r.err]
    /\ UNCHANGED <<fs, svcLoaded, lst, m, pending, lastMsg, lastCmd, running, prompt, nEvents, cli>>

\* The bootout step once launchctl has answered with error e (Nil: success).
bootoutStepAbortNever(d, e) == [d EXCEPT !.pc = "remove", !.bootoutDone = TRUE, !.bootoutErr = e]

bootoutStep(d, e) ==
    IF ~e.isNil /\ ~isIgnorableBootoutError(e)
    THEN [d EXCEPT !.pc = "done", !.bootoutDone = TRUE, !.bootoutErr = e,
                   !.result = Err(<<"b","o","o","t","o","u","t"," ","f","a","i","l","e","d"," ","f","o","r"," ">> \o d.label \o <<":"," ">> \o e.msg)]
    ELSE [d EXCEPT !.pc = "remove", !.bootoutDone = TRUE, !.bootoutErr = e]

\* Lines 304-309: runLaunchctl("bootout", domain+"/"+label) succeeds, which
\* unloads the service, ...
DelBootoutOk ==
    /\ del.pc = "bootout"
    /\ svcLoaded
    /\ svcLoaded' = FALSE
    /\ del' = bootoutStep(del, Nil)
    /\ UNCHANGED <<fs, lst, m, pending, lastMsg, lastCmd, running, prompt, nEvents, cli>>

\* ... or fails with some exit status and stderr text.
DelBootoutFail ==
    /\ del.pc = "bootout"
    /\ \E x \in ExitTexts, s \in BootoutStderrs :
          del' = bootoutStep(del, runLaunchctlErr(x, s))
    /\ UNCHANGED <<fs, svcLoaded, lst, m, pending, lastMsg, lastCmd, running, prompt, nEvents, cli>>

\* A faulty remove step, to which a file that is already absent is a failure.
removeStepStrict(d, outcome) ==
    [d EXCEPT !.pc = "done",
              !.removeCalls = d.removeCalls + 1,
              !.removeOutcome = outcome,
              !.result = IF outcome = "ok" THEN Nil
                         ELSE Err(<<"r","e","m","o","v","e"," ","p","l","i","s","t"," ">> \o d.absPath \o <<":"," ","n","o"," ","s","u","c","h"," ","f","i","l","e"," ","o","r"," ","d","i","r","e","c","t","o","r","y">>)]

\* The remove step once os.Remove has answered: "ok", "notexist" or "other".
removeStep(d, outcome) ==
    [d EXCEPT !.pc = "done",
              !.removeCalls = d.removeCalls + 1,
              !.removeOutcome = outcome,
              !.result = IF outcome = "other"
                         THEN Err(<<"r","e","m","o","v","e"," ","p","l","i","s","t"," ">> \o d.absPath \o <<":"," ","p","e","r","m","i","s","s","i","o","n"," ","d","e","n","i","e","d">>)
                         ELSE Nil]

\* Lines 311-320: os.Remove(absPath)
DelRemove ==
    /\ del.pc = "remove"
    /\ \E outcome \in (IF del.absPath \in fs THEN {"ok", "other"} ELSE {"notexist", "other"}) :
          /\ del' = removeStep(del, outcome)
          /\ fs' = IF outcome = "ok" THEN fs \ {del.absPath} ELSE fs
    /\ UNCHANGED <<svcLoaded, lst, m, pending, lastMsg, lastCmd, running, prompt, nEvents, cli>>

\* Error messages the classifier may be given: what launchctl may print,
\* whole or cut short, in several writings, behind the exit text of
\* runLaunchctl or alone, with or without more text after it.
MsgHeads == {<< >>, <<"e","x","i","t"," ","s","t","a","t","u","s"," ","3",":"," ","B","o","o","t","-","o","u","t"," ","f","a","i","l","e","d",":"," ","3",":"," ">>, <<"b","o","o","t","o","u","t",":"," ">>}
MsgCores ==
    { << >>,
      <<"N","o"," ","s","u","c","h"," ","p","r","o","c","e","s","s">>, <<"n","o"," ","s","u","c","h"," ","p","r","o","c","e","s","s">>, <<"N","O"," ","S","U","C","H"," ","P","R","O","C","E","S","S">>, <<"N","o"," ","s","u","c","h"," ","p","r","o","c","e","s">>,
      <<"S","e","r","v","i","c","e"," ","c","o","u","l","d"," ","n","o","t"," ","b","e"," ","f","o","u","n","d">>, <<"s","e","r","v","i","c","e"," ","c","o","u","l","d"," ","n","o","t"," ","b","e"," ","f","o","u","n","d">>, <<"S","e","r","v","i","c","e"," ","c","o","u","l","d"," ","n","o","t"," ","b","e">>,
      <<"N","o","t"," ","F","o","u","n","d">>, <<"n","o","t"," ","f","o","u","n","d">>, <<"n","o","t"," "," ","f","o","u","n","d">>, <<"o","t"," ","f","o","u","n","d">>,
      <<"D","o","m","a","i","n"," ","d","o","e","s"," ","n","o","t"," ","s","u","p","p","o","r","t"," ","s","p","e","c","i","f","i","e","d"," ","a","c","t","i","o","n">>, <<"D","o","m","a","i","n"," ","d","o","e","s"," ","n","o","t"," ","s","u","p","p","o","r","t">>,
      <<"p","e","r","m","i","s","s","i","o","n"," ","d","e","n","i","e","d">>, <<"I","n","p","u","t","/","o","u","t","p","u","t"," ","e","r","r","o","r">>, <<"O","p","e","r","a","t","i","o","n"," ","n","o","t"," ","p","e","r","m","i","t","t","e","d">> }
MsgTails == {<< >>, <<"\n">>, <<" ","(","c","o","m",".","f","o","o",".","a","g","e","n","t",")">>}
ClassifyInputs == {h \o c \o t : h \in MsgHeads, c \in MsgCores, t \in MsgTails}

\* One call of isIgnorableBootoutError(err).
Classify ==
    /\ cli.op = "classify" /\ cli.pc = "call"
    /\ cli' = [cli EXCEPT !.pc = "done", !.result = isIgnorableBootoutError(Err(cli.msg))]
    /\ UNCHANGED <<del, fs, svcLoaded, lst, m, pending, lastMsg, lastCmd, running, prompt, nEvents>>

(***************************************************************************)
(* parseBundleVersion                                                      *)
(***************************************************************************)

\* strings.Index and strings.LastIndex: the 0-based position of the first
\* and of the last occurrence of sub in s, -1 when there is none.
OccurrencesOf(s, sub) ==
    {i \in 0..(Len(s) - Len(sub)) : SubSeq(s, i + 1, i + Len(sub)) = sub}
Index(s, sub) == IF OccurrencesOf(s, sub) = {} THEN -1 ELSE MinOf(OccurrencesOf(s, sub))
LastIndex(s, sub) == IF OccurrencesOf(s, sub) = {} THEN -1 ELSE MaxOf(OccurrencesOf(s, sub))
TrimPrefix(s, pre) == IF HasPrefix(s, pre) THEN SubSeq(s, Len(pre) + 1, Len(s)) ELSE s
TrimSuffix(s, suf) == IF HasSuffix(s, suf) THEN SubSeq(s, 1, Len(s) - Len(suf)) ELSE s

\* A faulty parser, which splits at the first " (".
parseBundleVersionAtFirst(value) ==
    LET i == Index(value, <<" ","(">>)
    IN  IF i = -1 \/ ~HasSuffix(value, <<")">>) THEN <<value, << >> >>
        ELSE <<SubSeq(value, 1, i),
               TrimSuffix(TrimPrefix(SubSeq(value, i + 2, Len(value)), <<"(">>), <<")">>)>>

\* parseBundleVersion(value): (bundle ID, version).
parseBundleVersion(value) ==
    LET i == LastIndex(value, <<" ","(">>)
    IN  IF i = -1 \/ ~HasSuffix(value, <<")">>) THEN <<value, << >> >>
        ELSE <<SubSeq(value, 1, i),
               TrimSuffix(TrimPrefix(SubSeq(value, i + 2, Len(value)), <<"(">>), <<")">>)>>

\* Bundle IDs, versions (none holds " (") and other values of the column.
BundleIDs == {<< >>, <<"i","o",".","t","s">>, <<"i","o",".","t","a","i","l","s","c","a","l","e",".","i","p","n">>, <<"a"," ","(","b">>, <<"a"," ","(","b",")">>, <<"x"," ">>, <<"(","y",")">>}
Versions == {<< >>, <<"1",".","9">>, <<"1",".","9","4",".","1","/","1","0","1",".","9","4",".","1">>, <<"(","x">>, <<"a",")">>, <<"a"," ","b">>, <<")","(">>, <<" ">>}
OtherValues ==
    { << >>, <<"i","o",".","t","s">>, <<"i","o",".","t","s"," ","(","1",".","9">>, <<"i","o",".","t","s","(","1",".","9",")">>, <<"a"," ","(","b",")"," ","c">>, <<")">>, <<" ","(">>,
      <<"i","o",".","t","s"," ","(","1",".","9",")"," ">>, <<"(","1",".","9",")">> }
formatBundleVersion(b, v) == b \o <<" ","(">> \o v \o <<")">>

\* One call of parseBundleVersion(value).
ParseCall ==
    /\ cli.op = "parse" /\ cli.pc = "call"
    /\ LET r == parseBundleVersion(cli.value)
       IN  cli' = [cli EXCEPT !.pc = "done", !.bundle = r[1], !.version = r[2]]
    /\ UNCHANGED <<del, fs, svcLoaded, lst, m, pending, lastMsg, lastCmd, running, prompt, nEvents>>

(***************************************************************************)
(* The command line: background unload                                     *)
(***************************************************************************)

\* No command-line operation under way.
CliIdle == [op |-> "none"]

\* The state of a  background unload  command, flags as given on the line.
UnlStart(parseOk, label, scope, userOk, uid) ==
    [op |-> "unload", pc |-> "parse", parseOk |-> parseOk, label |-> label, scope |-> scope,
     userOk |-> userOk, uid |-> uid, domain |-> << >>,
     bootoutDone |-> FALSE, bootoutErr |-> Nil, result |-> Nil, out |-> << >>]

\* Lines 232-240: the flags are parsed and --label is required.
UnlParse ==
    /\ cli.op = "unload" /\ cli.pc = "parse"
    /\ cli' = IF ~cli.parseOk
              THEN [cli EXCEPT !.pc = "done", !.result = Err(<<"f","l","a","g"," ","p","r","o","v","i","d","e","d"," ","b","u","t"," ","n","o","t"," ","d","e","f","i","n","e","d">>)]
              ELSE IF cli.label = << >>
              THEN [cli EXCEPT !.pc = "done", !.result = Err(<<"-","-","l","a","b","e","l"," ","i","s"," ","r","e","q","u","i","r","e","d">>)]
              ELSE [cli EXCEPT !.pc = "domain"]
    /\ UNCHANGED <<del, fs, svcLoaded, lst, m, pending, lastMsg, lastCmd, running, prompt, nEvents>>

\* Lines 241-244: domain, err := launchDomain(*scope)
UnlDomain ==
    /\ cli.op = "unload" /\ cli.pc = "domain"
    /\ LET r == launchDomain(cli.scope, cli.userOk, cli.uid)
       IN  cli' = IF r.err.isNil
                  THEN [cli EXCEPT !.pc = "bootout", !.domain = r.domain]
                  ELSE [cli EXCEPT !.pc = "done", !.result = r.err]
    /\ UNCHANGED <<del, fs, svcLoaded, lst, m, pending, lastMsg, lastCmd, running, prompt, nEvents>>

\* Lines 245-249: the bootout once launchctl has answered with error e (Nil:
\* success): any error is returned, and success is printed.
unloadStep(c, e) ==
    IF ~e.isNil
    THEN [c EXCEPT !.pc = "done", !.bootoutDone = TRUE, !.bootoutErr = e, !.result = e]
    ELSE [c EXCEPT !.pc = "done", !.bootoutDone = TRUE, !.bootoutErr = e,
                   !.out = <<"u","n","l","o","a","d","e","d"," ">> \o c.label \o <<" ","f","r","o","m"," ">> \o c.domain \o <<"\n">>]

\* runLaunchctl("bootout", domain+"/"+label) succeeds on a loaded service, ...
UnlBootoutOk ==
    /\ cli.op = "unload" /\ cli.pc = "bootout"
    /\ svcLoaded
    /\ svcLoaded' = FALSE
    /\ cli' = unloadStep(cli, Nil)
    /\ UNCHANGED <<del, fs, lst, m, pending, lastMsg, lastCmd, running, prompt, nEvents>>

\* ... or fails with some exit status and stderr text.
UnlBootoutFail ==
    /\ cli.op = "unload" /\ cli.pc = "bootout"
    /\ \E x \in ExitTexts, e \in BootoutStderrs :
          cli' = unloadStep(cli, runLaunchctlErr(x, e))
    /\ UNCHANGED <<del, fs, svcLoaded, lst, m, pending, lastMsg, lastCmd, running, prompt, nEvents>>

(***************************************************************************)
(* The command line: login remove                                          *)
(***************************************************************************)

\* The login items System Events may hold (name, path), the flags that may be
\* given, and the values REMOVE_NAME / REMOVE_PATH may have in the
\* environment mlogin is started in (the empty string: not set).
liAlpha == [Name |-> <<"A","l","p","h","a">>, Path |-> <<"/","A","l","p","h","a",".","a","p","p">>]
liRaycast == [Name |-> <<"R","a","y","c","a","s","t">>, Path |-> <<"/","R","a","y","c","a","s","t",".","a","p","p">>]
liAlphaCopy == [Name |-> <<"A","l","p","h","a">>, Path |-> <<"/","w","/","A","l","p","h","a",".","a","p","p">>]
LoginPool == {liAlpha, liRaycast, liAlphaCopy}
RemoveNames == {<< >>, <<"A","l","p","h","a">>, <<"Z","e","d">>}
RemovePaths == {<< >>, <<"/","R","a","y","c","a","s","t",".","a","p","p">>, <<"A","l","p","h","a",".","a","p","p">>}
InheritedNames == {<< >>, <<"R","a","y","c","a","s","t">>}
InheritedPaths == {<< >>, <<"/","A","l","p","h","a",".","a","p","p">>}

LrStart(parseOk, name, path, cwdOk, envName, envPath, osaOk, items) ==
    [op |-> "loginRemove", pc |-> "parse", parseOk |-> parseOk, name |-> name, path |-> path,
     cwdOk |-> cwdOk, environ |-> [REMOVE_NAME |-> envName, REMOVE_PATH |-> envPath],
     osaOk |-> osaOk, items0 |-> items, items |-> items,
     env |-> [REMOVE_NAME |-> << >>, REMOVE_PATH |-> << >>],
     osaRuns |-> 0, result |-> Nil, out |-> << >>]

\* runLogin, lines 149-159: the flags are parsed; one of --name, --path is required.
LrParse ==
    /\ cli.op = "loginRemove" /\ cli.pc = "parse"
    /\ cli' = IF ~cli.parseOk
              THEN [cli EXCEPT !.pc = "done", !.result = Err(<<"f","l","a","g"," ","p","r","o","v","i","d","e","d"," ","b","u","t"," ","n","o","t"," ","d","e","f","i","n","e","d">>)]
              ELSE IF cli.name = << >> /\ cli.path = << >>
              THEN [cli EXCEPT !.pc = "done", !.result = Err(<<"p","r","o","v","i","d","e"," ","-","-","n","a","m","e"," ","o","r"," ","-","-","p","a","t","h">>)]
              ELSE [cli EXCEPT !.pc = "env"]
    /\ UNCHANGED <<del, fs, svcLoaded, lst, m, pending, lastMsg, lastCmd, running, prompt, nEvents>>

\* removeLoginItem, lines 400-411: env holds REMOVE_NAME for a name that is
\* not empty and REMOVE_PATH, made absolute, for a path that is not empty.
LrEnv ==
    /\ cli.op = "loginRemove" /\ cli.pc = "env"
    /\ LET r == IF cli.path # << >> THEN filepathAbs(cli.path, cli.cwdOk)
                ELSE [err |-> Nil, path |-> << >>]
       IN  cli' = IF ~r.err.isNil
                  THEN [cli EXCEPT !.pc = "done", !.result = r.err]
                  ELSE [cli EXCEPT !.pc = "osa",
                                   !.env = [REMOVE_NAME |-> cli.name, REMOVE_PATH |-> r.path]]
    /\ UNCHANGED <<del, fs, svcLoaded, lst, m, pending, lastMsg, lastCmd, running, prompt, nEvents>>

\* runOSA, lines 701-704: the environment of osascript is os.Environ()
\* followed by the entries of env, a later entry winning; env has no entry
\* for an empty flag.
osaGetenv(c, k) == IF c.env[k] # << >> THEN c.env[k] ELSE c.environ[k]

\* The script, lines 384-399: the items it deletes.
scriptMatches(c, item) ==
    LET matchesName == IF osaGetenv(c, "REMOVE_NAME") # << >>
                       THEN item.Name = osaGetenv(c, "REMOVE_NAME") ELSE FALSE
        matchesPath == IF osaGetenv(c, "REMOVE_PATH") # << >>
                       THEN item.Path = osaGetenv(c, "REMOVE_PATH") ELSE FALSE
    IN  matchesName \/ matchesPath

\* Lines 412-417: osascript runs the script; it may fail to run at all
\* (osaOk false), and the script throws when it removed nothing.
LrScript ==
    /\ cli.op = "loginRemove" /\ cli.pc = "osa"
    /\ LET removed == {it \in cli.items : scriptMatches(cli, it)}
       IN  cli' = IF ~cli.osaOk
                  THEN [cli EXCEPT !.pc = "done", !.osaRuns = cli.osaRuns + 1,
                           !.result = Err(<<"r","e","m","o","v","e"," ","l","o","g","i","n"," ","i","t","e","m"," ","f","a","i","l","e","d",":"," ","e","x","i","t"," ","s","t","a","t","u","s"," ","1",":"," ","n","o","t"," ","a","u","t","h","o","r","i","z","e","d">>)]
                  ELSE IF removed = {}
                  THEN [cli EXCEPT !.pc = "done", !.osaRuns = cli.osaRuns + 1,
                           !.result = Err(<<"r","e","m","o","v","e"," ","l","o","g","i","n"," ","i","t","e","m"," ","f","a","i","l","e","d",":"," ","e","x","i","t"," ","s","t","a","t","u","s"," ","1",":"," ","E","r","r","o","r",":"," ","n","o"," ","m","a","t","c","h","i","n","g"," ","l","o","g","i","n"," ","i","t","e","m"," ","f","o","u","n","d">>)]
                  ELSE [cli EXCEPT !.pc = "done", !.osaRuns = cli.osaRuns + 1,
                           !.items = cli.items \ removed,
                           !.out = <<"r","e","m","o","v","e","d"," ","m","a","t","c","h","i","n","g"," ","l","o","g","i","n"," ","i","t","e","m","s","\n">>]
    /\ UNCHANGED <<del, fs, svcLoaded, lst, m, pending, lastMsg, lastCmd, running, prompt, nEvents>>

(***************************************************************************)
(* The aggregator listBackgroundItems                                      *)
(***************************************************************************)

\* A *bool: nil is the empty sequence, a pointer to v is <<v>>.
NilBool == <<>>
PtrBool(v) == <<v>>

RECURSIVE SubsetsUpTo(_, _)
\* The subsets of S with at most k elements.
SubsetsUpTo(S, k) ==
    IF k = 0 THEN {{}}
    ELSE LET prev == SubsetsUpTo(S, k - 1)
         IN  prev \cup {T \cup {x} : T \in prev, x \in S}

\* The number of plist-directory entries on the machine, over all directories.
MaxEntries == 3

HomeDir == <<"/","U","s","e","r","s","/","u">>

\* filepath.Join of a directory and a name
filepathJoin(dir, name) == dir \o <<"/">> \o name

\* Lines 425-454: the directories scanned for a (lower-cased) scope.
scanDirs(scope) ==
    (IF scope = <<"u","s","e","r">> \/ scope = <<"a","l","l">>
     THEN << [id |-> 1, scope |-> <<"u","s","e","r">>, kind |-> <<"a","g","e","n","t">>,
              dir |-> filepathJoin(HomeDir, <<"L","i","b","r","a","r","y","/","L","a","u","n","c","h","A","g","e","n","t","s">>)] >>
     ELSE << >>)
    \o
    (IF scope = <<"s","y","s","t","e","m">> \/ scope = <<"a","l","l">>
     THEN << [id |-> 2, scope |-> <<"s","y","s","t","e","m">>, kind |-> <<"a","g","e","n","t">>, dir |-> <<"/","L","i","b","r","a","r","y","/","L","a","u","n","c","h","A","g","e","n","t","s">>],
             [id |-> 3, scope |-> <<"s","y","s","t","e","m">>, kind |-> <<"d","a","e","m","o","n">>, dir |-> <<"/","L","i","b","r","a","r","y","/","L","a","u","n","c","h","D","a","e","m","o","n","s">>] >>
     ELSE << >>)

\* Directory entries that may exist: name, whether it is a directory, and what
\* PlistBuddy "Print :Label" answers for it (labelOk FALSE: it exits non-zero,
\* as it does for a plist with no Label key).
EntryA == [name |-> <<"a",".","p","l","i","s","t">>, isDir |-> FALSE, labelOk |-> TRUE,  out |-> <<"c","o","m",".","a","\n">>]
EntryB == [name |-> <<"B",".","P","L","I","S","T">>, isDir |-> FALSE, labelOk |-> TRUE,  out |-> <<"c","o","m",".","B","\n">>]
EntryNoLabel == [name |-> <<"c",".","p","l","i","s","t">>, isDir |-> FALSE, labelOk |-> FALSE, out |-> << >>]
EntryBlank == [name |-> <<"d",".","p","l","i","s","t">>, isDir |-> FALSE, labelOk |-> TRUE,  out |-> <<" ","\n">>]
EntryDir == [name |-> <<"e",".","p","l","i","s","t">>, isDir |-> TRUE,  labelOk |-> FALSE, out |-> << >>]
EntryText == [name |-> <<"f",".","t","x","t">>,   isDir |-> FALSE, labelOk |-> TRUE,  out |-> <<"c","o","m",".","f","\n">>]

\* The (directory, entry) pairs that may exist.
EntryPool ==
    ({1} \X {EntryA, EntryNoLabel, EntryText})
    \cup ({2} \X {EntryA, EntryB, EntryBlank})
    \cup ({3} \X {EntryA, EntryB, EntryDir})

DirIds == {1, 2, 3}
DirStates == {"ok", "missing", "unreadable"}

\* readPlistLabel
readPlistLabel(e) ==
    IF e.labelOk THEN [err |-> Nil, label |-> TrimSpace(e.out)]
    ELSE [err |-> Err(<<"e","x","i","t"," ","s","t","a","t","u","s"," ","1">>), label |-> <<>>]

RECURSIVE SortByName(_)
\* os.ReadDir returns the entries sorted by filename.
SortByName(S) ==
    IF S = {} THEN << >>
    ELSE LET first == CHOOSE e \in S : \A o \in S \ {e} : StrLess(e.name, o.name)
         IN  <<first>> \o SortByName(S \ {first})

\* What launchctl print-disabled may yield for a domain: a failure, or a map.
DisabledResults ==
    { [ok |-> FALSE, map |-> << >>],
      [ok |-> TRUE,  map |-> [l \in {<<"c","o","m",".","a">>} |-> TRUE]],
      [ok |-> TRUE,  map |-> [l \in {<<"c","o","m",".","a">>, <<"c","o","m",".","B">>} |-> (l = <<"c","o","m",".","B">>)]] }

LoadedResults ==
    { [ok |-> FALSE, labels |-> {}],
      [ok |-> TRUE,  labels |-> {<<"c","o","m",".","a">>}] }

\* Lines 464-484: the disabled maps by scope ("absent" when not fetched).
disabledFrom(r) == IF r.ok THEN [present |-> TRUE, map |-> r.map] ELSE [present |-> FALSE, map |-> << >>]
NoMap == [present |-> FALSE, map |-> << >>]

disabledByScopeAnyScope(scope, env) ==
    LET anyMap == IF env.disUser.ok /\ env.userDomainOk THEN disabledFrom(env.disUser)
                  ELSE disabledFrom(env.disSystem)
    IN  [user |-> anyMap, system |-> anyMap]

disabledByScope(scope, env) ==
    [user   |-> IF (scope = <<"u","s","e","r">> \/ scope = <<"a","l","l">>) /\ env.userDomainOk
                THEN disabledFrom(env.disUser) ELSE NoMap,
     system |-> IF scope = <<"s","y","s","t","e","m">> \/ scope = <<"a","l","l">>
                THEN disabledFrom(env.disSystem) ELSE NoMap]

\* A faulty aggregator, which keeps a failed fetch to itself.
fetchWarningsSilent(scope, env) == << >>

\* Lines 464-484: the warnings of the two disabled-state fetches.
fetchWarnings(scope, env) ==
    (IF (scope = <<"u","s","e","r">> \/ scope = <<"a","l","l">>) /\ env.userDomainOk /\ ~env.disUser.ok
     THEN << <<"c","o","u","l","d"," ","n","o","t"," ","r","e","a","d"," ","u","s","e","r"," ","d","i","s","a","b","l","e","d"," ","s","t","a","t","e",":"," ","e","x","i","t"," ","s","t","a","t","u","s"," ","1">> >> ELSE << >>)
    \o
    (IF (scope = <<"s","y","s","t","e","m">> \/ scope = <<"a","l","l">>) /\ ~env.disSystem.ok
     THEN << <<"c","o","u","l","d"," ","n","o","t"," ","r","e","a","d"," ","s","y","s","t","e","m"," ","d","i","s","a","b","l","e","d"," ","s","t","a","t","e"," ","(","t","r","y"," ","s","u","d","o",")",":"," ","e","x","i","t"," ","s","t","a","t","u","s"," ","1">> >> ELSE << >>)

\* Lines 456-462: the loaded labels of the user domain (empty when not fetched).
loadedUserOf(scope, env) ==
    IF (scope = <<"u","s","e","r">> \/ scope = <<"a","l","l">>) /\ env.loaded.ok THEN env.loaded.labels ELSE {}

mapOfScope(dis, scope) == IF scope = <<"u","s","e","r">> THEN dis.user ELSE dis.system

\* Lines 505-517: the item built for a labelled plist file of directory d.
buildItem(d, p, label, loadedUser, dis) ==
    LET mm == mapOfScope(dis, d.scope)
    IN  [Label |-> label, Path |-> p, Scope |-> d.scope, Kind |-> d.kind,
         Loaded |-> (d.scope = <<"u","s","e","r">> /\ label \in loadedUser),
         Disabled |-> IF mm.present /\ label \in DOMAIN mm.map
                      THEN PtrBool(mm.map[label]) ELSE NilBool]

\* Lines 496-504: whether a directory entry is skipped before its label is read.
skipEntry(e) == e.isDir \/ ~HasSuffix(ToLower(e.name), <<".","p","l","i","s","t">>)

skipLabelNever(r) == FALSE

\* Line 502: whether a file is skipped for its label.
skipLabel(r) == ~r.err.isNil \/ r.label = <<>>

RECURSIVE entryItems(_, _, _, _)
\* Lines 496-519: the items of the entries es of directory d, in order.
entryItems(d, es, loadedUser, dis) ==
    IF es = << >> THEN << >>
    ELSE LET e == Head(es)
             r == readPlistLabel(e)
             rest == entryItems(d, Tail(es), loadedUser, dis)
         IN  IF skipEntry(e) \/ skipLabel(r) THEN rest
             ELSE <<buildItem(d, filepathJoin(d.dir, e.name), r.label, loadedUser, dis)>> \o rest

RECURSIVE dirItems(_, _, _, _)
\* Lines 486-520: the items of the directories ds, in order.
dirItems(ds, env, loadedUser, dis) ==
    IF ds = << >> THEN << >>
    ELSE LET d == Head(ds)
             rest == dirItems(Tail(ds), env, loadedUser, dis)
         IN  IF env.dirState[d.id] # "ok" THEN rest
             ELSE entryItems(d, SortByName({f[2] : f \in {g \in env.files : g[1] = d.id}}),
                             loadedUser, dis) \o rest

RECURSIVE dirWarnings(_, _)
\* Lines 488-495: a directory that cannot be read is warned about, unless it
\* does not exist.
dirWarnings(ds, env) ==
    IF ds = << >> THEN << >>
    ELSE (IF env.dirState[Head(ds).id] = "unreadable"
          THEN << <<"c","o","u","l","d"," ","n","o","t"," ","r","e","a","d"," ">> \o Head(ds).dir \o <<":"," ","p","e","r","m","i","s","s","i","o","n"," ","d","e","n","i","e","d">> >>
          ELSE << >>) \o dirWarnings(Tail(ds), env)

\* Lines 522-527: the less function of the final sort.
itemLess(a, b) ==
    IF a.Scope # b.Scope THEN StrLess(a.Scope, b.Scope) ELSE StrLess(a.Label, b.Label)

\* The permutations of 1..n
Perms(n) == {p \in [1..n -> 1..n] : \A i, j \in 1..n : i # j => p[i] # p[j]}

\* The results sort.Slice may leave for items: a rearrangement in which no
\* element comes before one that is less than it (the sort is not stable, so
\* elements that compare equal end in any order).
SortedArrangements(items) ==
    { [i \in 1..Len(items) |-> items[p[i]]] : p \in
        {q \in Perms(Len(items)) :
            \A i, j \in 1..Len(items) : i < j => ~itemLess(items[q[j]], items[q[i]])} }

LstIdle == [pc |-> "idle", scope |-> <<>>, env |-> <<>>, items |-> <<>>, warnings |-> <<>>, err |-> Nil]

\* listBackgroundItems(scope), lines 419-529.
ListBackgroundItems ==
    /\ lst.pc = "call"
    /\ LET scope == ToLower(lst.scope)
           env == lst.env
       IN  IF scope # <<"u","s","e","r">> /\ scope # <<"s","y","s","t","e","m">> /\ scope # <<"a","l","l">>
           THEN lst' = [lst EXCEPT !.pc = "done", !.err = Err(<<"s","c","o","p","e"," ","m","u","s","t"," ","b","e"," ","u","s","e","r",","," ","s","y","s","t","e","m",","," ","o","r"," ","a","l","l">>)]
           ELSE IF (scope = <<"u","s","e","r">> \/ scope = <<"a","l","l">>) /\ ~env.homeOk
           THEN lst' = [lst EXCEPT !.pc = "done", !.err = Err(<<"$","H","O","M","E"," ","i","s"," ","n","o","t"," ","d","e","f","i","n","e","d">>)]
           ELSE LET dis == disabledByScope(scope, env)
                    ds == scanDirs(scope)
                    unsorted == dirItems(ds, env, loadedUserOf(scope, env), dis)
                IN  \E sorted \in SortedArrangements(unsorted) :
                       lst' = [lst EXCEPT !.pc = "done",
                                          !.items = sorted,
                                          !.warnings = fetchWarnings(scope, env) \o dirWarnings(ds, env)]
    /\ UNCHANGED <<del, fs, svcLoaded, m, pending, lastMsg, lastCmd, running, prompt, nEvents, cli>>

(***************************************************************************)
(* The interactive browser: uiModel, rebuildTable, Update                  *)
(***************************************************************************)

tabLogin == 0
tabBackground == 1
tabExtensions == 2

\* A *BackgroundItem: nil is the empty sequence, a pointer to it is <<it>>.
NilItem == << >>

\* bubbles' table.Model, as far as the browser uses it.
tableNew ==
    [cols |-> << [Title |-> "Loading...", Width |-> 20] >>, rows |-> << >>, cursor |-> 0, height |-> 10]

clamp(v, low, high) == LET a == max(v, low) IN IF a < high THEN a ELSE high

tableSetHeight(t, h) == [t EXCEPT !.height = h]
tableSetRows(t, rows) ==
    [t EXCEPT !.rows = rows,
              !.cursor = IF t.cursor > Len(rows) - 1 THEN Len(rows) - 1 ELSE t.cursor]
tableSetColumns(t, cols) == [t EXCEPT !.cols = cols]
tableSetCursor(t, n) == [t EXCEPT !.cursor = clamp(n, 0, Len(t.rows) - 1)]
tableMoveUp(t, n) == [t EXCEPT !.cursor = clamp(t.cursor - n, 0, Len(t.rows) - 1)]
tableMoveDown(t, n) == [t EXCEPT !.cursor = clamp(t.cursor + n, 0, Len(t.rows) - 1)]

\* m.table.Update(msg) for a key: the table's own key map moves the cursor.
tableUpdate(t, key) ==
    IF key = "up" THEN tableMoveUp(t, 1)
    ELSE IF key = "down" THEN tableMoveDown(t, 1)
    ELSE IF key = "d" THEN tableMoveDown(t, (t.height - 2) \div 2)
    ELSE t

\* newUIModel()
newUIModel ==
    [width |-> 0, height |-> 0, tab |-> tabLogin, table |-> tableNew,
     loginItems |-> << >>, loginRows |-> << >>,
     bgItems |-> << >>, bgRows |-> << >>,
     extItems |-> << >>, extRows |-> << >>,
     warnings |-> << >>,
     filter |-> << >>, filterActive |-> FALSE,
     confirmMode |-> FALSE, confirmText |-> << >>, pendingBGDel |-> NilItem,
     status |-> <<"L","o","a","d","i","n","g"," ","l","o","g","i","n","/","b","a","c","k","g","r","o","u","n","d"," ","i","t","e","m","s",".",".",".">>, err |-> Nil]

\* The commands an Update call returns (tea.Cmd); "none" is the nil command.
Cmd(kind) ==
    [kind |-> kind, path |-> << >>, label |-> << >>, scope |-> << >>,
     enable |-> FALSE, item |-> NilItem]
NoCmd == Cmd("none")
Quit == Cmd("quit")
refreshLoginCmd == Cmd("refreshLogin")
refreshBackgroundCmd == Cmd("refreshBackground")
refreshExtensionsCmd == Cmd("refreshExtensions")
removeLoginCmd(path) == [Cmd("removeLogin") EXCEPT !.path = path]
toggleBackgroundCmd(label, scope, enable) ==
    [Cmd("toggleBackground") EXCEPT !.label = label, !.scope = scope, !.enable = enable]
deleteBackgroundCmd(item) == [Cmd("deleteBackground") EXCEPT !.item = <<item>>]

\* A faulty matcher, which takes the filter text as it is.
matchesLoginFilterUntrimmed(it, q0) ==
    LET q == ToLower(q0)
    IN  q = << >> \/ Contains(ToLower(it.Name), q) \/ Contains(ToLower(it.Path), q)

matchesLoginFilter(it, q0) ==
    LET q == TrimSpace(ToLower(q0))
    IN  q = << >> \/ Contains(ToLower(it.Name), q) \/ Contains(ToLower(it.Path), q)

matchesBackgroundFilter(it, q0) ==
    LET q == TrimSpace(ToLower(q0))
    IN  \/ q = << >>
        \/ Contains(ToLower(it.Label), q)
        \/ Contains(ToLower(it.Path), q)
        \/ Contains(ToLower(it.Scope), q)
        \/ Contains(ToLower(it.Kind), q)

matchesExtensionsFilter(it, q0) ==
    LET q == TrimSpace(ToLower(q0))
    IN  \/ q = << >>
        \/ Contains(ToLower(it.Category), q)
        \/ Contains(ToLower(it.TeamID), q)
        \/ Contains(ToLower(it.BundleID), q)
        \/ Contains(ToLower(it.Name), q)
        \/ Contains(ToLower(it.State), q)

\* trimLastRune
trimLastRune(s) == IF Len(s) = 0 THEN s ELSE SubSeq(s, 1, Len(s) - 1)

\* The row of each kind of item.
loginRow(it) == << it.Name, FormatBool(it.Hidden), it.Path >>
backgroundRow(it) ==
    << it.Scope, it.Kind, FormatBool(it.Loaded),
       IF it.Disabled # NilBool THEN FormatBool(it.Disabled[1]) ELSE <<"?">>,
       it.Label, it.Path >>
extensionsRow(it) ==
    << it.Category, FormatBool(it.Enabled), FormatBool(it.Active),
       it.TeamID, it.BundleID, it.Name, it.State >>

loginColumns(width) ==
    LET nameW == max(20, width \div 5)
        hiddenW == 8
        pathW == max(30, width - nameW - hiddenW - 8)
    IN  << [Title |-> "Name", Width |-> nameW],
           [Title |-> "Hidden", Width |-> hiddenW],
           [Title |-> "Path", Width |-> pathW] >>

backgroundColumns(width) ==
    LET labelW == max(22, width \div 4)
        pathW == max(25, width - 8 - 8 - 8 - 8 - labelW - 12)
    IN  << [Title |-> "Scope", Width |-> 8],
           [Title |-> "Kind", Width |-> 8],
           [Title |-> "Loaded", Width |-> 8],
           [Title |-> "Disabled", Width |-> 8],
           [Title |-> "Label", Width |-> labelW],
           [Title |-> "Path", Width |-> pathW] >>

extensionsColumns(width) ==
    LET catW == max(24, width \div 5)
        bundleW == max(28, width \div 4)
        stateW == max(16, width \div 8)
        nameW == max(22, width - catW - 7 - 6 - 10 - bundleW - stateW - 14)
    IN  << [Title |-> "Category", Width |-> catW],
           [Title |-> "Enabled", Width |-> 7],
           [Title |-> "Active", Width |-> 6],
           [Title |-> "TeamID", Width |-> 10],
           [Title |-> "BundleID", Width |-> bundleW],
           [Title |-> "Name", Width |-> nameW],
           [Title |-> "State", Width |-> stateW] >>

RECURSIVE filterRowsFrom(_, _, _, _)
\* The loop "for i, it := range items": the (0-based) indexes, from i on, of
\* the items the filter keeps, in order. dom is the tab whose matcher is used.
filterRowsFrom(items, q, dom, i) ==
    IF i >= Len(items) THEN << >>
    ELSE LET it == items[i + 1]
             keep == IF dom = tabLogin THEN matchesLoginFilter(it, q)
                     ELSE IF dom = tabBackground THEN matchesBackgroundFilter(it, q)
                     ELSE matchesExtensionsFilter(it, q)
         IN  (IF keep THEN <<i>> ELSE << >>) \o filterRowsFrom(items, q, dom, i + 1)

filterRowsPositions(items, q, dom) == [k \in 1..Len(filterRowsFrom(items, q, dom, 0)) |-> k - 1]

filterRows(items, q, dom) == filterRowsFrom(items, q, dom, 0)

\* The tail of rebuildTable (lines 465-475): where the cursor is put.
placeCursor(t, cursor) ==
    IF Len(t.rows) = 0 THEN tableSetCursor(t, 0)
    ELSE tableSetCursor(t, IF cursor < 0 THEN 0
                           ELSE IF cursor >= Len(t.rows) THEN Len(t.rows) - 1
                           ELSE cursor)

\* rebuildTable(cursor), lines 371-476.
rebuildTable(mm, cursor) ==
    LET t1 == tableSetRows(tableSetHeight(mm.table, max(4, mm.height - 8)), << >>)
    IN  IF mm.tab = tabLogin
        THEN LET rows == filterRows(mm.loginItems, mm.filter, tabLogin)
                 t2 == tableSetRows(tableSetColumns(t1, loginColumns(mm.width)),
                                    [k \in 1..Len(rows) |-> loginRow(mm.loginItems[rows[k] + 1])])
             IN  [mm EXCEPT !.loginRows = rows, !.table = placeCursor(t2, cursor)]
        ELSE IF mm.tab = tabBackground
        THEN LET rows == filterRows(mm.bgItems, mm.filter, tabBackground)
                 t2 == tableSetRows(tableSetColumns(t1, backgroundColumns(mm.width)),
                                    [k \in 1..Len(rows) |-> backgroundRow(mm.bgItems[rows[k] + 1])])
             IN  [mm EXCEPT !.bgRows = rows, !.table = placeCursor(t2, cursor)]
        ELSE LET rows == filterRows(mm.extItems, mm.filter, tabExtensions)
                 t2 == tableSetRows(tableSetColumns(t1, extensionsColumns(mm.width)),
                                    [k \in 1..Len(rows) |-> extensionsRow(mm.extItems[rows[k] + 1])])
             IN  [mm EXCEPT !.extRows = rows, !.table = placeCursor(t2, cursor)]

\* selectedLoginItem(): [ok, item]
selectedLoginItem(mm) ==
    LET idx == mm.table.cursor
    IN  IF idx < 0 \/ idx >= Len(mm.loginRows) THEN [ok |-> FALSE, item |-> << >>]
        ELSE LET itemIdx == mm.loginRows[idx + 1]
             IN  IF itemIdx < 0 \/ itemIdx >= Len(mm.loginItems) THEN [ok |-> FALSE, item |-> << >>]
                 ELSE [ok |-> TRUE, item |-> <<mm.loginItems[itemIdx + 1]>>]

\* selectedBackgroundItem(): [ok, item]
selectedBackgroundItem(mm) ==
    LET idx == mm.table.cursor
    IN  IF idx < 0 \/ idx >= Len(mm.bgRows) THEN [ok |-> FALSE, item |-> << >>]
        ELSE LET itemIdx == mm.bgRows[idx + 1]
             IN  IF itemIdx < 0 \/ itemIdx >= Len(mm.bgItems) THEN [ok |-> FALSE, item |-> << >>]
                 ELSE [ok |-> TRUE, item |-> <<mm.bgItems[itemIdx + 1]>>]

Ret(mm, cmd) == [model |-> mm, cmd |-> cmd]

\* case tea.WindowSizeMsg, lines 171-175
updateWindowSize(mm, w, h) ==
    Ret(rebuildTable([mm EXCEPT !.width = w, !.height = h], 0), NoCmd)

\* case loginLoadedMsg, lines 176-186
updateLoginLoaded(mm, items, err) ==
    LET m1 == IF ~err.isNil
              THEN [mm EXCEPT !.err = err, !.status = <<"F","a","i","l","e","d"," ","t","o"," ","l","o","a","d"," ","l","o","g","i","n"," ","i","t","e","m","s">>]
              ELSE [mm EXCEPT !.loginItems = items,
                              !.status = <<"L","o","a","d","e","d"," ">> \o Itoa(Len(items)) \o <<" ","l","o","g","i","n"," ","i","t","e","m","s">>,
                              !.err = Nil]
    IN  Ret(rebuildTable(m1, 0), NoCmd)

\* A faulty load, which drops a completion that arrives while another tab is shown.
updateBackgroundLoadedIfActive(mm, items, warnings, err) ==
    IF mm.tab # tabBackground THEN Ret(mm, NoCmd)
    ELSE Ret(rebuildTable(IF ~err.isNil
                          THEN [mm EXCEPT !.err = err, !.status = <<"F","a","i","l","e","d"," ","t","o"," ","l","o","a","d"," ","b","a","c","k","g","r","o","u","n","d"," ","i","t","e","m","s">>]
                          ELSE [mm EXCEPT !.bgItems = items, !.warnings = warnings, !.err = Nil,
                                          !.status = <<"L","o","a","d","e","d"," ">> \o Itoa(Len(items)) \o <<" ","b","a","c","k","g","r","o","u","n","d"," ","i","t","e","m","s">>], 0),
             NoCmd)

\* case backgroundLoadedMsg, lines 187-198
updateBackgroundLoaded(mm, items, warnings, err) ==
    LET m1 == IF ~err.isNil
              THEN [mm EXCEPT !.err = err, !.status = <<"F","a","i","l","e","d"," ","t","o"," ","l","o","a","d"," ","b","a","c","k","g","r","o","u","n","d"," ","i","t","e","m","s">>]
              ELSE [mm EXCEPT !.bgItems = items,
                              !.warnings = warnings,
                              !.status = <<"L","o","a","d","e","d"," ">> \o Itoa(Len(items)) \o <<" ","b","a","c","k","g","r","o","u","n","d"," ","i","t","e","m","s">>,
                              !.err = Nil]
    IN  Ret(rebuildTable(m1, 0), NoCmd)

\* case extensionsLoadedMsg, lines 199-209
updateExtensionsLoaded(mm, items, err) ==
    LET m1 == IF ~err.isNil
              THEN [mm EXCEPT !.err = err, !.status = <<"F","a","i","l","e","d"," ","t","o"," ","l","o","a","d"," ","s","y","s","t","e","m"," ","e","x","t","e","n","s","i","o","n","s">>]
              ELSE [mm EXCEPT !.extItems = items,
                              !.status = <<"L","o","a","d","e","d"," ">> \o Itoa(Len(items)) \o <<" ","s","y","s","t","e","m"," ","e","x","t","e","n","s","i","o","n","s">>,
                              !.err = Nil]
    IN  Ret(rebuildTable(m1, 0), NoCmd)

\* case actionDoneMsg, lines 210-224
updateActionDone(mm, status, err) ==
    IF ~err.isNil
    THEN Ret([mm EXCEPT !.err = err, !.status = <<"A","c","t","i","o","n"," ","f","a","i","l","e","d">>], NoCmd)
    ELSE LET m1 == [mm EXCEPT !.err = Nil, !.status = status]
         IN  IF mm.tab = tabLogin THEN Ret(m1, refreshLoginCmd)
             ELSE IF mm.tab = tabExtensions THEN Ret(m1, refreshExtensionsCmd)
             ELSE Ret(m1, refreshBackgroundCmd)

\* A faulty clearing of the prompt, which keeps the item it held.
clearConfirmKeepItem(mm) ==
    [mm EXCEPT !.confirmMode = FALSE, !.confirmText = << >>]

clearConfirm(mm) ==
    [mm EXCEPT !.pendingBGDel = NilItem, !.confirmMode = FALSE, !.confirmText = << >>]

\* A faulty confirmation, in which y leaves the prompt open.
updateConfirmKeyStay(mm, key) ==
    IF key.s = "y" /\ mm.pendingBGDel # NilItem
    THEN Ret([mm EXCEPT !.status = <<"D","e","l","e","t","i","n","g"," ","b","a","c","k","g","r","o","u","n","d"," ","i","t","e","m",".",".",".">>],
             deleteBackgroundCmd(mm.pendingBGDel[1]))
    ELSE IF key.s \in {"n", "esc"}
    THEN Ret([clearConfirm(mm) EXCEPT !.status = <<"D","e","l","e","t","e"," ","c","a","n","c","e","l","l","e","d">>], NoCmd)
    ELSE Ret(mm, NoCmd)

\* case tea.KeyMsg while m.confirmMode, lines 226-252
updateConfirmKey(mm, key) ==
    IF key.s = "ctrl+c" THEN Ret(mm, Quit)
    ELSE IF key.s = "y"
    THEN IF mm.pendingBGDel # NilItem
         THEN Ret([clearConfirm(mm) EXCEPT !.status = <<"D","e","l","e","t","i","n","g"," ","b","a","c","k","g","r","o","u","n","d"," ","i","t","e","m",".",".",".">>],
                  deleteBackgroundCmd(mm.pendingBGDel[1]))
         ELSE Ret(clearConfirm(mm), NoCmd)
    ELSE IF key.s \in {"n", "esc"}
    THEN Ret([clearConfirm(mm) EXCEPT !.status = <<"D","e","l","e","t","e"," ","c","a","n","c","e","l","l","e","d">>], NoCmd)
    ELSE Ret(mm, NoCmd)

\* case tea.KeyMsg while m.filterActive, lines 254-275
updateFilterKey(mm, key) ==
    IF key.s = "ctrl+c" THEN Ret(mm, Quit)
    ELSE IF key.s \in {"enter", "esc"}
    THEN Ret([mm EXCEPT !.filterActive = FALSE,
                        !.status = <<"F","i","l","t","e","r"," ","a","p","p","l","i","e","d"," ","(">> \o Itoa(Len(mm.table.rows)) \o <<" ","r","e","s","u","l","t","s",")">>],
             NoCmd)
    ELSE IF key.s = "backspace"
    THEN IF mm.filter # << >>
         THEN Ret(rebuildTable([mm EXCEPT !.filter = trimLastRune(mm.filter)], 0), NoCmd)
         ELSE Ret(mm, NoCmd)
    ELSE IF key.Type = "runes"
    THEN Ret(rebuildTable([mm EXCEPT !.filter = mm.filter \o <<key.s>>], 0), NoCmd)
    ELSE Ret(mm, NoCmd)

\* Lines 342-344: the key is handed to the table.
updateTable(mm, key) == Ret([mm EXCEPT !.table = tableUpdate(mm.table, key.s)], NoCmd)

\* A faulty delete key, which deletes the background item at once.
updateDeleteKeyAtOnce(mm, key) ==
    IF mm.tab = tabLogin
    THEN LET sel == selectedLoginItem(mm)
         IN  IF ~sel.ok THEN Ret(mm, NoCmd)
             ELSE Ret([mm EXCEPT !.status = <<"R","e","m","o","v","i","n","g"," ","l","o","g","i","n"," ","i","t","e","m",".",".",".">>],
                      removeLoginCmd(sel.item[1].Path))
    ELSE IF mm.tab = tabBackground
    THEN LET sel == selectedBackgroundItem(mm)
         IN  IF ~sel.ok THEN Ret(mm, NoCmd)
             ELSE Ret([mm EXCEPT !.status = <<"D","e","l","e","t","i","n","g"," ","b","a","c","k","g","r","o","u","n","d"," ","i","t","e","m",".",".",".">>],
                      deleteBackgroundCmd(sel.item[1]))
    ELSE updateTable(mm, key)

\* case "x", lines 310-328
updateDeleteKey(mm, key) ==
    IF mm.tab = tabLogin
    THEN LET sel == selectedLoginItem(mm)
         IN  IF ~sel.ok THEN Ret(mm, NoCmd)
             ELSE Ret([mm EXCEPT !.status = <<"R","e","m","o","v","i","n","g"," ","l","o","g","i","n"," ","i","t","e","m",".",".",".">>],
                      removeLoginCmd(sel.item[1].Path))
    ELSE IF mm.tab = tabBackground
    THEN LET sel == selectedBackgroundItem(mm)
         IN  IF ~sel.ok THEN Ret(mm, NoCmd)
             ELSE Ret([mm EXCEPT !.pendingBGDel = sel.item,
                                 !.confirmMode = TRUE,
                                 !.confirmText = <<"D","e","l","e","t","e"," ">> \o sel.item[1].Label
                                                 \o <<" ","a","n","d"," ","r","e","m","o","v","e"," ","p","l","i","s","t"," ","f","i","l","e","?"," ","(","y","/","n",")">>],
                      NoCmd)
    ELSE updateTable(mm, key)

\* case "e", "d", lines 329-338
updateToggleKey(mm, key) ==
    IF mm.tab = tabBackground
    THEN LET sel == selectedBackgroundItem(mm)
         IN  IF ~sel.ok THEN Ret(mm, NoCmd)
             ELSE Ret([mm EXCEPT !.status = <<"A","p","p","l","y","i","n","g"," ","b","a","c","k","g","r","o","u","n","d"," ","i","t","e","m"," ","c","h","a","n","g","e",".",".",".">>],
                      toggleBackgroundCmd(sel.item[1].Label, sel.item[1].Scope, key.s = "e"))
    ELSE updateTable(mm, key)

\* A faulty clear key, which empties the text and leaves the rows as they were.
updateClearKeyNoRebuild(mm, key) ==
    IF mm.filter # << >>
    THEN Ret([mm EXCEPT !.filter = << >>, !.status = <<"F","i","l","t","e","r"," ","c","l","e","a","r","e","d">>], NoCmd)
    ELSE Ret(mm, NoCmd)

\* case "c", lines 303-309
updateClearKey(mm, key) ==
    IF mm.filter # << >>
    THEN Ret([rebuildTable([mm EXCEPT !.filter = << >>], 0) EXCEPT !.status = <<"F","i","l","t","e","r"," ","c","l","e","a","r","e","d">>], NoCmd)
    ELSE Ret(mm, NoCmd)

\* case tea.KeyMsg in normal mode, lines 277-340
updateNormalKey(mm, key) ==
    IF key.s \in {"ctrl+c", "q"} THEN Ret(mm, Quit)
    ELSE IF key.s \in {"tab", "right", "l"}
    THEN Ret(rebuildTable([mm EXCEPT !.tab = (mm.tab + 1) % 3], 0), NoCmd)
    ELSE IF key.s \in {"shift+tab", "left", "h"}
    THEN Ret(rebuildTable([mm EXCEPT !.tab = (mm.tab + 2) % 3], 0), NoCmd)
    ELSE IF key.s = "r"
    THEN IF mm.tab = tabLogin
         THEN Ret([mm EXCEPT !.status = <<"R","e","f","r","e","s","h","i","n","g"," ","l","o","g","i","n"," ","i","t","e","m","s",".",".",".">>], refreshLoginCmd)
         ELSE IF mm.tab = tabExtensions
         THEN Ret([mm EXCEPT !.status = <<"R","e","f","r","e","s","h","i","n","g"," ","s","y","s","t","e","m"," ","e","x","t","e","n","s","i","o","n","s",".",".",".">>], refreshExtensionsCmd)
         ELSE Ret([mm EXCEPT !.status = <<"R","e","f","r","e","s","h","i","n","g"," ","b","a","c","k","g","r","o","u","n","d"," ","i","t","e","m","s",".",".",".">>], refreshBackgroundCmd)
    ELSE IF key.s \in {"/", "f"}
    THEN Ret([mm EXCEPT !.filterActive = TRUE,
                        !.status = <<"F","i","l","t","e","r"," ","m","o","d","e",":"," ","t","y","p","e"," ","t","o"," ","f","i","l","t","e","r",","," ","e","n","t","e","r","/","e","s","c"," ","t","o"," ","f","i","n","i","s","h">>], NoCmd)
    ELSE IF key.s = "c" THEN updateClearKey(mm, key)
    ELSE IF key.s = "x" THEN updateDeleteKey(mm, key)
    ELSE IF key.s \in {"e", "d"} THEN updateToggleKey(mm, key)
    ELSE updateTable(mm, key)

\* A faulty dispatch, in which the confirmation answers only to y, n and esc
\* and hands every other key to the mode underneath.
updateKeyNotModal(mm, key) ==
    IF mm.confirmMode /\ key.s \in {"y", "n", "esc"} THEN updateConfirmKey(mm, key)
    ELSE IF mm.filterActive THEN updateFilterKey(mm, key)
    ELSE updateNormalKey(mm, key)

\* case tea.KeyMsg, lines 225-340
updateKey(mm, key) ==
    IF mm.confirmMode THEN updateConfirmKey(mm, key)
    ELSE IF mm.filterActive THEN updateFilterKey(mm, key)
    ELSE updateNormalKey(mm, key)

\* The messages of the commands' completions (lines 127-167).
removeLoginDone(ok) ==
    IF ok THEN [status |-> <<"R","e","m","o","v","e","d"," ","l","o","g","i","n"," ","i","t","e","m">>, err |-> Nil]
    ELSE [status |-> << >>, err |-> Err(<<"r","e","m","o","v","e"," ","l","o","g","i","n"," ","i","t","e","m"," ","f","a","i","l","e","d",":"," ","e","x","i","t"," ","s","t","a","t","u","s"," ","1",":"," ">>)]

toggleBackgroundDone(c, ok) ==
    IF ok THEN [status |-> (IF c.enable THEN <<"e","n","a","b","l","e","d">> ELSE <<"d","i","s","a","b","l","e","d">>) \o <<" ">> \o c.label, err |-> Nil]
    ELSE [status |-> << >>, err |-> Err(<<"e","x","i","t"," ","s","t","a","t","u","s"," ","1">>)]

deleteBackgroundDone(c, ok) ==
    IF ok THEN [status |-> <<"D","e","l","e","t","e","d"," ","b","a","c","k","g","r","o","u","n","d"," ","i","t","e","m"," ">> \o c.item[1].Label, err |-> Nil]
    ELSE [status |-> << >>, err |-> Err(<<"b","o","o","t","o","u","t"," ","f","a","i","l","e","d"," ","f","o","r"," ">> \o c.item[1].Label \o <<":"," ","e","x","i","t"," ","s","t","a","t","u","s"," ","1">>)]

(***************************************************************************)
(* The event loop: key presses, resizes and command completions            *)
(***************************************************************************)

\* The number of messages the event loop processes in a run.
MaxEvents == 5

KeysSpecial == {"ctrl+c", "tab", "shift+tab", "esc", "backspace", "down"}
KeysRunes == {"r", "/", "c", "x", "e", "d", "y", "n"}
Keys == KeysSpecial \cup KeysRunes
Key(s) == [Type |-> IF s \in KeysRunes THEN "runes" ELSE "special", s |-> s]

WindowSizes == {<<120, 30>>}

\* What the aggregators may deliver (each list sorted as its aggregator sorts).
itAlpha == [Name |-> <<"A","l","p","h","a">>, Path |-> <<"/","A","l","p","h","a",".","a","p","p">>, Hidden |-> FALSE]
itRaycast == [Name |-> <<"R","a","y","c","a","s","t">>, Path |-> <<"/","R","a","y","c","a","s","t",".","a","p","p">>, Hidden |-> TRUE]
bgAlpha == [Label |-> <<"c","o","m",".","a","l","p","h","a">>, Path |-> <<"/","a",".","p","l","i","s","t">>, Scope |-> <<"s","y","s","t","e","m">>, Kind |-> <<"d","a","e","m","o","n">>,
            Loaded |-> FALSE, Disabled |-> NilBool]
bgRay == [Label |-> <<"c","o","m",".","r","a","y">>, Path |-> <<"/","r",".","p","l","i","s","t">>, Scope |-> <<"u","s","e","r">>, Kind |-> <<"a","g","e","n","t">>,
          Loaded |-> TRUE, Disabled |-> PtrBool(FALSE)]
extTail == [Category |-> <<"n","e","t">>, Enabled |-> TRUE, Active |-> TRUE, TeamID |-> <<"W","5">>,
            BundleID |-> <<"i","o",".","t","s">>, Version |-> <<"1",".","9">>, Name |-> <<"T","a","i","l","s","c","a","l","e">>, State |-> <<"o","n">>]

LoginResults ==
    { [items |-> <<itAlpha, itRaycast>>, err |-> Nil],
      [items |-> << >>, err |-> Err(<<"o","s","a","s","c","r","i","p","t"," ","l","o","g","i","n"," ","l","i","s","t"," ","f","a","i","l","e","d">>)] }
BackgroundResults ==
    { [items |-> <<bgAlpha, bgRay>>, warnings |-> << >>, err |-> Nil],
      [items |-> <<bgRay>>, warnings |-> << <<"c","o","u","l","d"," ","n","o","t"," ","r","e","a","d"," ","s","y","s","t","e","m"," ","d","i","s","a","b","l","e","d"," ","s","t","a","t","e"," ","(","t","r","y"," ","s","u","d","o",")",":"," ","e","x","i","t"," ","s","t","a","t","u","s"," ","1">> >>, err |-> Nil],
      [items |-> << >>, warnings |-> << >>, err |-> Err(<<"$","H","O","M","E"," ","i","s"," ","n","o","t"," ","d","e","f","i","n","e","d">>)] }
ExtensionsResults ==
    { [items |-> <<extTail>>, err |-> Nil],
      [items |-> << >>, err |-> Err(<<"e","x","i","t"," ","s","t","a","t","u","s"," ","1">>)] }

Msg(type, key, ok, of) == [type |-> type, key |-> key, ok |-> ok, of |-> of]

\* The message a load delivers: its kind, its outcome and the items it carries.
LoadedMsg(type, res, cmd) == Msg(type, "", res.err.isNil, cmd) @@ [items |-> res.items]

IsAsync(c) == c.kind \notin {"none", "quit"}

\* The history of the confirmation prompt: the item captured when it was last
\* opened and the delete commands issued since.
promptAfter(mm, r) ==
    LET opened == IF ~mm.confirmMode /\ r.model.confirmMode
                  THEN [item |-> r.model.pendingBGDel, deletes |-> 0]
                  ELSE prompt
    IN  IF r.cmd.kind = "deleteBackground"
        THEN [opened EXCEPT !.deletes = opened.deletes + 1]
        ELSE opened

\* One pass of the event loop: Update(msg) returned r; its command is started.
Deliver(r, msg, pend) ==
    /\ nEvents < MaxEvents
    /\ nEvents' = nEvents + 1
    /\ m' = r.model
    /\ lastMsg' = msg
    /\ lastCmd' = r.cmd
    /\ running' = (r.cmd.kind # "quit")
    /\ pending' = IF IsAsync(r.cmd) THEN pend (+) SetToBag({r.cmd}) ELSE pend
    /\ prompt' = promptAfter(m, r)
    /\ UNCHANGED <<del, fs, svcLoaded, lst, cli>>

KeyPress ==
    /\ running
    /\ \E s \in Keys :
          Deliver(updateKey(m, Key(s)), Msg("key", s, TRUE, NoCmd), pending)

Resize ==
    /\ running
    /\ \E sz \in WindowSizes :
          Deliver(updateWindowSize(m, sz[1], sz[2]), Msg("size", "", TRUE, NoCmd), pending)

LoginLoaded ==
    /\ running
    /\ BagIn(refreshLoginCmd, pending)
    /\ \E res \in LoginResults :
          Deliver(updateLoginLoaded(m, res.items, res.err),
                  LoadedMsg("loginLoaded", res, refreshLoginCmd),
                  pending (-) SetToBag({refreshLoginCmd}))

BackgroundLoaded ==
    /\ running
    /\ BagIn(refreshBackgroundCmd, pending)
    /\ \E res \in BackgroundResults :
          Deliver(updateBackgroundLoaded(m, res.items, res.warnings, res.err),
                  LoadedMsg("backgroundLoaded", res, refreshBackgroundCmd),
                  pending (-) SetToBag({refreshBackgroundCmd}))

ExtensionsLoaded ==
    /\ running
    /\ BagIn(refreshExtensionsCmd, pending)
    /\ \E res \in ExtensionsResults :
          Deliver(updateExtensionsLoaded(m, res.items, res.err),
                  LoadedMsg("extensionsLoaded", res, refreshExtensionsCmd),
                  pending (-) SetToBag({refreshExtensionsCmd}))

ActionDone ==
    /\ running
    /\ \E c \in BagToSet(pending), ok \in BOOLEAN :
          /\ c.kind \in {"removeLogin", "toggleBackground", "deleteBackground"}
          /\ LET done == IF c.kind = "removeLogin" THEN removeLoginDone(ok)
                         ELSE IF c.kind = "toggleBackground" THEN toggleBackgroundDone(c, ok)
                         ELSE deleteBackgroundDone(c, ok)
             IN  Deliver(updateActionDone(m, done.status, done.err),
                         Msg("actionDone", "", ok, c),
                         pending (-) SetToBag({c}))

(***************************************************************************)
(* The final sort of the three aggregators                                 *)
(***************************************************************************)

\* listLoginItems, lines 352-354, and listSystemExtensions, lines 577-582:
\* the less functions of the final sorts.
loginLess(a, b) == StrLess(ToLower(a.Name), ToLower(b.Name))
extensionsLess(a, b) ==
    IF a.Category # b.Category THEN StrLess(a.Category, b.Category) ELSE StrLess(a.Name, b.Name)
domainLess(domain, a, b) ==
    IF domain = "login" THEN loginLess(a, b)
    ELSE IF domain = "background" THEN itemLess(a, b)
    ELSE extensionsLess(a, b)

\* The results sort.Slice may leave for items under the less function of a
\* domain: as SortedArrangements, elements that compare equal end in any order.
sortSlice(domain, items) ==
    { [i \in 1..Len(items) |-> items[p[i]]] : p \in
        {q \in Perms(Len(items)) :
            \A i, j \in 1..Len(items) : i < j => ~domainLess(domain, items[q[j]], items[q[i]])} }

\* Records the external sources may return. Two login items may have names
\* that differ in case only, two plists of the system directories the same
\* label, two extensions of a category the same name.
itAlphaLower == [Name |-> <<"a","l","p","h","a">>, Path |-> <<"/","w","/","a","l","p","h","a",".","a","p","p">>, Hidden |-> FALSE]
bgAlphaAgent == [bgAlpha EXCEPT !.Path = <<"/","L","i","b","r","a","r","y","/","L","a","u","n","c","h","A","g","e","n","t","s","/","a",".","p","l","i","s","t">>, !.Kind = <<"a","g","e","n","t">>]
bgAlphaDaemon == [bgAlpha EXCEPT !.Path = <<"/","L","i","b","r","a","r","y","/","L","a","u","n","c","h","D","a","e","m","o","n","s","/","a",".","p","l","i","s","t">>]
extTailOld == [extTail EXCEPT !.Version = <<"1",".","8">>, !.Active = FALSE, !.State = <<"o","f","f">>]
extVpn == [extTail EXCEPT !.Name = <<"V","p","n">>, !.BundleID = <<"i","o",".","v","p","n">>]
SortPool(domain) ==
    IF domain = "login" THEN {itAlpha, itAlphaLower, itRaycast}
    ELSE IF domain = "background" THEN {bgAlphaAgent, bgAlphaDaemon, bgRay}
    ELSE {extTail, extTailOld, extVpn}
SortDomains == {"login", "background", "extensions"}

\* The orders in which a source may return the records S: any order for
\* System Events and systemextensionsctl; for the plist directories the
\* order of the scan, user directory first and then by path (lines 425-454
\* and os.ReadDir).
Arrangements(S) ==
    {f \in [1..Cardinality(S) -> S] : \A i, j \in 1..Cardinality(S) : i # j => f[i] # f[j]}
ScanOrder(f) ==
    \A i, j \in 1..Len(f) :
        i < j => \/ f[i].Scope = <<"u","s","e","r">> /\ f[j].Scope # <<"u","s","e","r">>
                 \/ f[i].Scope = f[j].Scope /\ StrLess(f[i].Path, f[j].Path)
SourceOrders(domain, S) ==
    IF domain = "background" THEN {f \in Arrangements(S) : ScanOrder(f)} ELSE Arrangements(S)

\* Two runs of one aggregator over the same records.
AggStart(domain, in1, in2) ==
    [op |-> "aggregate", domain |-> domain, in |-> <<in1, in2>>,
     out |-> << << >>, << >> >>, done |-> <<FALSE, FALSE>>]

aggregateRun(c, k, sorted) == [c EXCEPT !.out[k] = sorted, !.done[k] = TRUE]

AggFirstRun ==
    /\ cli.op = "aggregate" /\ ~cli.done[1]
    /\ \E sorted \in sortSlice(cli.domain, cli.in[1]) : cli' = aggregateRun(cli, 1, sorted)
    /\ UNCHANGED <<del, fs, svcLoaded, lst, m, pending, lastMsg, lastCmd, running, prompt, nEvents>>

AggSecondRun ==
    /\ cli.op = "aggregate" /\ ~cli.done[2]
    /\ \E sorted \in sortSlice(cli.domain, cli.in[2]) : cli' = aggregateRun(cli, 2, sorted)
    /\ UNCHANGED <<del, fs, svcLoaded, lst, m, pending, lastMsg, lastCmd, running, prompt, nEvents>>

\* The keys of a filter edit. A space reaches Update as a KeyRunes message
\* or as a KeySpace message, as the terminal library decides; a capital
\* letter is a KeyRunes message.
FilterKeyMsgs ==
    { Key("/"), Key("r"), Key("esc"), Key("backspace"), Key("tab"),
      [Type |-> "runes", s |-> "A"],
      [Type |-> "runes", s |-> " "],
      [Type |-> "space", s |-> " "] }

\* The browser once the window size and the three snapshots have arrived.
loadedModel ==
    LET m1 == updateWindowSize(newUIModel, 120, 30).model
        m2 == updateLoginLoaded(m1, <<itAlpha, itRaycast>>, Nil).model
        m3 == updateBackgroundLoaded(m2, <<bgAlpha, bgRay>>, << >>, Nil).model
    IN  updateExtensionsLoaded(m3, <<extTail>>, Nil).model

FilterKeyPress ==
    /\ running
    /\ \E k \in FilterKeyMsgs :
          Deliver(updateKey(m, k), Msg("key", k.s, TRUE, NoCmd), pending)

(***************************************************************************)
(* rebuildTable, one table call at a time                                  *)
(***************************************************************************)

\* The widths and heights a tea.WindowSizeMsg carries.
ResizeWidths == {0, 1, 79, 120, 250}
ResizeHeights == {0, 30}

\* The messages that make Update call rebuildTable with the tab or the size
\* changed: tab, shift+tab and a resize.
RebuildEvents ==
    { [type |-> "key", key |-> k, w |-> 0, h |-> 0] : k \in {"tab", "shift+tab"} }
    \cup { [type |-> "size", key |-> "", w |-> w, h |-> h] : w \in ResizeWidths, h \in ResizeHeights }

\* What Update assigns before it calls rebuildTable(0).
rebuildEntry(mm, ev) ==
    IF ev.type = "size" THEN [mm EXCEPT !.width = ev.w, !.height = ev.h]
    ELSE IF ev.key = "tab" THEN [mm EXCEPT !.tab = (mm.tab + 1) % 3]
    ELSE [mm EXCEPT !.tab = (mm.tab + 2) % 3]

\* The whole Update call of the message.
rebuildUpdate(mm, ev) ==
    IF ev.type = "size" THEN updateWindowSize(mm, ev.w, ev.h)
    ELSE updateKey(mm, Key(ev.key))

\* A faulty first step, which leaves the rows of the old tab in the table.
rebuildClearKeepRows(mm) == tableSetHeight(mm.table, max(4, mm.height - 8))

\* Lines 372-376: SetHeight, then SetRows(nil).
rebuildClear(mm) ==
    tableSetRows(tableSetHeight(mm.table, max(4, mm.height - 8)), << >>)

\* The columns rebuildTable sets for the tab shown.
rebuildColumns(mm) ==
    IF mm.tab = tabLogin THEN loginColumns(mm.width)
    ELSE IF mm.tab = tabBackground THEN backgroundColumns(mm.width)
    ELSE extensionsColumns(mm.width)

\* The loop over the snapshot of the tab shown: the index list it rebuilds
\* and the rows it hands to SetRows.
rebuildRows(mm) ==
    IF mm.tab = tabLogin
    THEN LET rows == filterRows(mm.loginItems, mm.filter, tabLogin)
         IN  [mm EXCEPT !.loginRows = rows,
                        !.table = tableSetRows(mm.table,
                                     [k \in 1..Len(rows) |-> loginRow(mm.loginItems[rows[k] + 1])])]
    ELSE IF mm.tab = tabBackground
    THEN LET rows == filterRows(mm.bgItems, mm.filter, tabBackground)
         IN  [mm EXCEPT !.bgRows = rows,
                        !.table = tableSetRows(mm.table,
                                     [k \in 1..Len(rows) |-> backgroundRow(mm.bgItems[rows[k] + 1])])]
    ELSE LET rows == filterRows(mm.extItems, mm.filter, tabExtensions)
         IN  [mm EXCEPT !.extRows = rows,
                        !.table = tableSetRows(mm.table,
                                     [k \in 1..Len(rows) |-> extensionsRow(mm.extItems[rows[k] + 1])])]

RbIdle == [op |-> "rebuild", pc |-> "idle", ev |-> [type |-> "none", key |-> "", w |-> 0, h |-> 0],
           entry |-> newUIModel]

RbUnchanged == UNCHANGED <<del, fs, svcLoaded, lst, pending, lastMsg, lastCmd, running, prompt, nEvents>>

\* Update receives the message and enters rebuildTable(0).
RbEnter ==
    /\ cli.op = "rebuild" /\ cli.pc \in {"idle", "done"}
    /\ \E ev \in RebuildEvents :
          /\ cli' = [op |-> "rebuild", pc |-> "entered", ev |-> ev, entry |-> m]
          /\ m' = rebuildEntry(m, ev)
    /\ RbUnchanged

RbClear ==
    /\ cli.op = "rebuild" /\ cli.pc = "entered"
    /\ m' = [m EXCEPT !.table = rebuildClear(m)]
    /\ cli' = [cli EXCEPT !.pc = "cleared"]
    /\ RbUnchanged

RbSetColumns ==
    /\ cli.op = "rebuild" /\ cli.pc = "cleared"
    /\ m' = [m EXCEPT !.table = tableSetColumns(m.table, rebuildColumns(m))]
    /\ cli' = [cli EXCEPT !.pc = "columns"]
    /\ RbUnchanged

RbSetRows ==
    /\ cli.op = "rebuild" /\ cli.pc = "columns"
    /\ m' = rebuildRows(m)
    /\ cli' = [cli EXCEPT !.pc = "rows"]
    /\ RbUnchanged

\* Lines 465-475, and the return of Update.
RbSetCursor ==
    /\ cli.op = "rebuild" /\ cli.pc = "rows"
    /\ m' = [m EXCEPT !.table = placeCursor(m.table, 0)]
    /\ cli' = [cli EXCEPT !.pc = "done"]
    /\ RbUnchanged

(***************************************************************************)
(* Specifications                                                          *)
(***************************************************************************)

PromptIdle == [item |-> NilItem, deletes |-> 0]

UiIdle ==
    /\ m = newUIModel
    /\ pending = EmptyBag
    /\ lastMsg = Msg("init", "", TRUE, NoCmd)
    /\ lastCmd = NoCmd
    /\ running = FALSE
    /\ prompt = PromptIdle
    /\ nEvents = 0

\* The browser: newUIModel() with the three loads of Init() in flight.
Init ==
    /\ m = newUIModel
    /\ pending = SetToBag({refreshLoginCmd, refreshBackgroundCmd, refreshExtensionsCmd})
    /\ lastMsg = Msg("init", "", TRUE, NoCmd)
    /\ lastCmd = NoCmd
    /\ running = TRUE
    /\ prompt = PromptIdle
    /\ nEvents = 0
    /\ del = DelIdle /\ fs = {} /\ svcLoaded = FALSE
    /\ cli = CliIdle
    /\ lst = LstIdle

Next ==
    \/ KeyPress
    \/ Resize
    \/ LoginLoaded
    \/ BackgroundLoaded
    \/ ExtensionsLoaded
    \/ ActionDone

Spec == Init /\ [][Next]_vars

\* One call of deleteBackgroundItem(label, plistPath, scope) on some machine.
InitDelete ==
    /\ \E label \in DelLabels, path \in DelPaths, scope \in DelScopes,
          cwdOk \in BOOLEAN, userOk \in BOOLEAN, uid \in DelUids, files \in SUBSET AbsPaths :
          /\ fs = files
          /\ del = [DelIdle EXCEPT !.pc = "abs", !.label = label, !.plistPath = path,
                                   !.scope = scope, !.cwdOk = cwdOk, !.userOk = userOk,
                                   !.uid = uid, !.fs0 = files]
    /\ svcLoaded \in BOOLEAN
    /\ lst = LstIdle
    /\ cli = CliIdle
    /\ UiIdle

NextDelete ==
    \/ DelAbs
    \/ DelDomain
    \/ DelBootoutOk
    \/ DelBootoutFail
    \/ DelRemove

SpecDelete == InitDelete /\ [][NextDelete]_vars

\* One call of listBackgroundItems(scope) on some machine.
ListScopes == {<<"u","s","e","r">>, <<"s","y","s","t","e","m">>, <<"A","l","l">>, <<"b","o","g","u","s">>}

InitList ==
    /\ \E dirState \in [DirIds -> DirStates] :
       \E files \in SubsetsUpTo({f \in EntryPool : dirState[f[1]] = "ok"}, MaxEntries) :
       \E scope \in ListScopes, homeOk \in BOOLEAN, userDomainOk \in BOOLEAN,
          loaded \in LoadedResults, disUser \in DisabledResults, disSystem \in DisabledResults :
          lst = [LstIdle EXCEPT !.pc = "call", !.scope = scope,
                    !.env = [dirState |-> dirState, files |-> files, homeOk |-> homeOk,
                             userDomainOk |-> userDomainOk, loaded |-> loaded,
                             disUser |-> disUser, disSystem |-> disSystem]]
    /\ del = DelIdle /\ fs = {} /\ svcLoaded = FALSE
    /\ cli = CliIdle
    /\ UiIdle

NextList == ListBackgroundItems

SpecList == InitList /\ [][NextList]_vars

\* One run of  mlogin background unload --label L --scope S  on some machine.
InitUnload ==
    /\ \E parseOk \in BOOLEAN, label \in DelLabels \cup {<< >>}, scope \in DelScopes,
          userOk \in BOOLEAN, uid \in DelUids :
          cli = UnlStart(parseOk, label, scope, userOk, uid)
    /\ svcLoaded \in BOOLEAN
    /\ del = DelIdle /\ fs = {}
    /\ lst = LstIdle
    /\ UiIdle

NextUnload ==
    \/ UnlParse
    \/ UnlDomain
    \/ UnlBootoutOk
    \/ UnlBootoutFail

SpecUnload == InitUnload /\ [][NextUnload]_vars

\* One run of  mlogin login remove [--name N] [--path P]  on some machine.
InitLoginRemove ==
    /\ \E parseOk \in BOOLEAN, name \in RemoveNames, path \in RemovePaths, cwdOk \in BOOLEAN,
          envName \in InheritedNames, envPath \in InheritedPaths, osaOk \in BOOLEAN,
          items \in SUBSET LoginPool :
          cli = LrStart(parseOk, name, path, cwdOk, envName, envPath, osaOk, items)
    /\ del = DelIdle /\ fs = {} /\ svcLoaded = FALSE
    /\ lst = LstIdle
    /\ UiIdle

NextLoginRemove ==
    \/ LrParse
    \/ LrEnv
    \/ LrScript

SpecLoginRemove == InitLoginRemove /\ [][NextLoginRemove]_vars

\* Two runs of an aggregator whose source returns the same records.
InitAggregate ==
    /\ \E domain \in SortDomains :
       \E S \in SUBSET SortPool(domain) :
       \E in1 \in SourceOrders(domain, S), in2 \in SourceOrders(domain, S) :
          cli = AggStart(domain, in1, in2)
    /\ del = DelIdle /\ fs = {} /\ svcLoaded = FALSE
    /\ lst = LstIdle
    /\ UiIdle

NextAggregate ==
    \/ AggFirstRun
    \/ AggSecondRun

SpecAggregate == InitAggregate /\ [][NextAggregate]_vars

\* Filter editing in the browser, the snapshots loaded.
InitFilter ==
    /\ m = loadedModel
    /\ pending = EmptyBag
    /\ lastMsg = Msg("init", "", TRUE, NoCmd)
    /\ lastCmd = NoCmd
    /\ running = TRUE
    /\ prompt = PromptIdle
    /\ nEvents = 0
    /\ del = DelIdle /\ fs = {} /\ svcLoaded = FALSE
    /\ cli = CliIdle
    /\ lst = LstIdle

NextFilter == FilterKeyPress

SpecFilter == InitFilter /\ [][NextFilter]_vars

\* One call of isIgnorableBootoutError on some error message.
InitClassify ==
    /\ \E msg \in ClassifyInputs : cli = [op |-> "classify", pc |-> "call", msg |-> msg, result |-> FALSE]
    /\ del = DelIdle /\ fs = {} /\ svcLoaded = FALSE
    /\ lst = LstIdle
    /\ UiIdle

NextClassify == Classify

SpecClassify == InitClassify /\ [][NextClassify]_vars

\* One call of parseBundleVersion, on a formatted pair or on another value.
InitParse ==
    /\ \/ \E b \in BundleIDs, v \in Versions :
             cli = [op |-> "parse", pc |-> "call", formatted |-> TRUE, b |-> b, v |-> v,
                    value |-> formatBundleVersion(b, v), bundle |-> << >>, version |-> << >>]
       \/ \E x \in OtherValues :
             cli = [op |-> "parse", pc |-> "call", formatted |-> FALSE, b |-> << >>, v |-> << >>,
                    value |-> x, bundle |-> << >>, version |-> << >>]
    /\ del = DelIdle /\ fs = {} /\ svcLoaded = FALSE
    /\ lst = LstIdle
    /\ UiIdle

NextParse == ParseCall

SpecParse == InitParse /\ [][NextParse]_vars

\* Tab switches and resizes of the browser, the snapshots loaded, with
\* rebuildTable taken one table call at a time.
InitRebuild ==
    /\ m = loadedModel
    /\ pending = EmptyBag
    /\ lastMsg = Msg("init", "", TRUE, NoCmd)
    /\ lastCmd = NoCmd
    /\ running = TRUE
    /\ prompt = PromptIdle
    /\ nEvents = 0
    /\ del = DelIdle /\ fs = {} /\ svcLoaded = FALSE
    /\ cli = RbIdle
    /\ lst = LstIdle

NextRebuild ==
    \/ RbEnter
    \/ RbClear
    \/ RbSetColumns
    \/ RbSetRows
    \/ RbSetCursor

SpecRebuild == InitRebuild /\ [][NextRebuild]_vars

(***************************************************************************)
(* Properties                                                              *)
(***************************************************************************)

\* The benign bootout failures, as the design states them: the message
\* contains one of these phrases, compared case-insensitively.
BenignPhrases ==
    { <<"n","o"," ","s","u","c","h"," ","p","r","o","c","e","s","s">>, <<"s","e","r","v","i","c","e"," ","c","o","u","l","d"," ","n","o","t"," ","b","e"," ","f","o","u","n","d">>, <<"n","o","t"," ","f","o","u","n","d">>,
      <<"d","o","m","a","i","n"," ","d","o","e","s"," ","n","o","t"," ","s","u","p","p","o","r","t"," ","s","p","e","c","i","f","i","e","d"," ","a","c","t","i","o","n">> }
Benign(e) == \E p \in BenignPhrases : Contains(ToLower(e.msg), p)

\* C1: deleteBackgroundItem removes the plist file only after the bootout step
\* has succeeded or failed with an ignorable error. os.Remove is called, and
\* the disk changes, only once bootout has run and did not fail
\* non-ignorably; and a call whose bootout failed non-ignorably ends with an
\* error, without any call of os.Remove, the disk as it was.
C1_RemoveOnlyAfterBootout ==
    /\ (del.pc = "remove" \/ del.removeCalls > 0 \/ fs # del.fs0)
          => /\ del.bootoutDone
             /\ del.bootoutErr.isNil \/ Benign(del.bootoutErr)
    /\ (del.pc = "done" /\ del.bootoutDone /\ ~del.bootoutErr.isNil /\ ~Benign(del.bootoutErr))
          => /\ ~del.result.isNil
             /\ del.removeCalls = 0
             /\ fs = del.fs0

\* A call that bootout aborted, non-ignorably, with the plist file on disk.
C1_Witness ==
    /\ del.pc = "done"
    /\ del.bootoutDone /\ ~del.bootoutErr.isNil /\ ~Benign(del.bootoutErr)
    /\ del.absPath \in fs

\* The result of the disabled-state fetch that governs scope sc.
FetchOf(env, sc) ==
    IF sc = <<"u","s","e","r">> THEN [ok |-> env.userDomainOk /\ env.disUser.ok, map |-> env.disUser.map]
    ELSE [ok |-> env.disSystem.ok, map |-> env.disSystem.map]

\* C2: the disabled field of every item listBackgroundItems returns comes from
\* the disabled map of the item's own scope: it is that map's value for the
\* label when the scope's fetch succeeded and the map holds the label, and nil
\* otherwise, whatever the other scope's fetch gave.
C2_DisabledFromOwnScope ==
    (lst.pc = "done" /\ lst.err.isNil) =>
        \A i \in 1..Len(lst.items) :
            LET it == lst.items[i]
                f == FetchOf(lst.env, it.Scope)
            IN  it.Disabled = IF f.ok /\ it.Label \in DOMAIN f.map
                              THEN PtrBool(f.map[it.Label]) ELSE NilBool

\* A system item whose disabled state is unknown because the system fetch
\* failed, while the user fetch succeeded and its map holds the same label.
C2_Witness ==
    /\ lst.pc = "done" /\ lst.err.isNil
    /\ ~lst.env.disSystem.ok
    /\ lst.env.userDomainOk /\ lst.env.disUser.ok
    /\ \E i \in 1..Len(lst.items) :
          /\ lst.items[i].Scope = <<"s","y","s","t","e","m">>
          /\ lst.items[i].Label \in DOMAIN lst.env.disUser.map
          /\ lst.items[i].Disabled = NilBool

\* The directories a scope argument asks for.
ScopeDirIds(scope) ==
    (IF ToLower(scope) \in {<<"u","s","e","r">>, <<"a","l","l">>} THEN {1} ELSE {})
    \cup (IF ToLower(scope) \in {<<"s","y","s","t","e","m">>, <<"a","l","l">>} THEN {2, 3} ELSE {})
DirPath(id) ==
    IF id = 1 THEN <<"/","U","s","e","r","s","/","u","/","L","i","b","r","a","r","y","/","L","a","u","n","c","h","A","g","e","n","t","s">>
    ELSE IF id = 2 THEN <<"/","L","i","b","r","a","r","y","/","L","a","u","n","c","h","A","g","e","n","t","s">>
    ELSE <<"/","L","i","b","r","a","r","y","/","L","a","u","n","c","h","D","a","e","m","o","n","s">>
DirScope(id) == IF id = 1 THEN <<"u","s","e","r">> ELSE <<"s","y","s","t","e","m">>

\* The plist files of the scanned directories, and those with a valid label.
IsPlistFile(e) == ~e.isDir /\ HasSuffix(ToLower(e.name), <<".","p","l","i","s","t">>)
HasValidLabel(e) == e.labelOk /\ TrimSpace(e.out) # << >>
ScannedPlistFiles == {f \in lst.env.files : f[1] \in ScopeDirIds(lst.scope) /\ IsPlistFile(f[2])}
LabelledFiles == {f \in ScannedPlistFiles : HasValidLabel(f[2])}

\* C3: listBackgroundItems returns exactly one item per plist file that has a
\* valid non-empty label (with that label, path and scope) and none for the
\* other files, in ascending (scope, label) order.
C3_ExactlyLabelledSorted ==
    (lst.pc = "done" /\ lst.err.isNil) =>
        /\ Len(lst.items) = Cardinality(LabelledFiles)
        /\ \A f \in LabelledFiles :
              \E i \in 1..Len(lst.items) :
                 /\ lst.items[i].Path = DirPath(f[1]) \o <<"/">> \o f[2].name
                 /\ lst.items[i].Label = TrimSpace(f[2].out)
                 /\ lst.items[i].Scope = DirScope(f[1])
        /\ \A i, j \in 1..Len(lst.items) :
              i < j => \/ StrLess(lst.items[i].Scope, lst.items[j].Scope)
                       \/ /\ lst.items[i].Scope = lst.items[j].Scope
                          /\ ~StrLess(lst.items[j].Label, lst.items[i].Label)

\* A listing of two labelled files, found in the order user then system and
\* returned in the order system then user, beside a plist file with no Label key.
C3_Witness ==
    /\ lst.pc = "done" /\ lst.err.isNil
    /\ <<1, EntryNoLabel>> \in ScannedPlistFiles
    /\ Len(lst.items) = 2
    /\ lst.items[1].Scope = <<"s","y","s","t","e","m">>
    /\ lst.items[2].Scope = <<"u","s","e","r">>

\* The rows, items and matcher of the active tab.
ActiveRows == IF m.tab = tabLogin THEN m.loginRows
              ELSE IF m.tab = tabBackground THEN m.bgRows ELSE m.extRows
ActiveItems == IF m.tab = tabLogin THEN m.loginItems
               ELSE IF m.tab = tabBackground THEN m.bgItems ELSE m.extItems
ActiveMatches(it) ==
    IF m.tab = tabLogin THEN matchesLoginFilter(it, m.filter)
    ELSE IF m.tab = tabBackground THEN matchesBackgroundFilter(it, m.filter)
    ELSE matchesExtensionsFilter(it, m.filter)
ActiveRowOf(it) ==
    IF m.tab = tabLogin THEN loginRow(it)
    ELSE IF m.tab = tabBackground THEN backgroundRow(it) ELSE extensionsRow(it)

\* C4: the row mapping of the active tab is strictly increasing, every entry
\* is an index into the snapshot, the entries are exactly the indexes of the
\* items matching the filter text, row k of the table displays the item the
\* mapping gives for k, and selectedLoginItem / selectedBackgroundItem return
\* the item displayed at the cursor row (and nothing when no row is).
C4_RowMapping ==
    /\ \A k \in 1..Len(ActiveRows) : ActiveRows[k] >= 0 /\ ActiveRows[k] < Len(ActiveItems)
    /\ \A k, l \in 1..Len(ActiveRows) : k < l => ActiveRows[k] < ActiveRows[l]
    /\ {ActiveRows[k] : k \in 1..Len(ActiveRows)}
          = {i \in 0..(Len(ActiveItems) - 1) : ActiveMatches(ActiveItems[i + 1])}
    /\ Len(m.table.rows) = Len(ActiveRows)
    /\ \A k \in 1..Len(ActiveRows) : m.table.rows[k] = ActiveRowOf(ActiveItems[ActiveRows[k] + 1])
    /\ m.tab = tabLogin =>
          LET sel == selectedLoginItem(m)
          IN  /\ sel.ok <=> (m.table.cursor >= 0 /\ m.table.cursor < Len(m.table.rows))
              /\ sel.ok => /\ sel.item[1] = m.loginItems[m.loginRows[m.table.cursor + 1] + 1]
                           /\ loginRow(sel.item[1]) = m.table.rows[m.table.cursor + 1]
    /\ m.tab = tabBackground =>
          LET sel == selectedBackgroundItem(m)
          IN  /\ sel.ok <=> (m.table.cursor >= 0 /\ m.table.cursor < Len(m.table.rows))
              /\ sel.ok => /\ sel.item[1] = m.bgItems[m.bgRows[m.table.cursor + 1] + 1]
                           /\ backgroundRow(sel.item[1]) = m.table.rows[m.table.cursor + 1]

\* After a filter edit that leaves the second login item as the only row,
\* the selection resolves to that item.
C4_Witness ==
    /\ m.tab = tabLogin
    /\ m.filter = <<"r">>
    /\ m.loginItems = <<itAlpha, itRaycast>>
    /\ m.loginRows = <<1>>
    /\ selectedLoginItem(m) = [ok |-> TRUE, item |-> <<itRaycast>>]

\* The last step was the key s, pressed in the mode and tab of the unprimed state.
Pressed(s) == nEvents' = nEvents + 1 /\ lastMsg'.type = "key" /\ lastMsg'.key = s
NormalMode == ~m.confirmMode /\ ~m.filterActive
RowSelected == m.table.cursor >= 0 /\ m.table.cursor < Len(m.table.rows)

\* C5: in normal mode on the background tab, the key x pressed with a row
\* selected opens the confirmation: confirm mode is on, the pending delete is
\* the item displayed at the cursor row, the prompt names its label, and no
\* command is issued.
C5_DeleteKeyOpensPrompt ==
    [][ (Pressed("x") /\ NormalMode /\ m.tab = tabBackground /\ RowSelected)
          => LET it == m.bgItems[m.bgRows[m.table.cursor + 1] + 1]
             IN  /\ backgroundRow(it) = m.table.rows[m.table.cursor + 1]
                 /\ m'.confirmMode
                 /\ m'.pendingBGDel = <<it>>
                 /\ Contains(m'.confirmText, it.Label)
                 /\ m'.confirmText # it.Label
                 /\ lastCmd' = NoCmd
                 /\ pending' = pending
                 /\ running' ]_vars

\* The prompt opened on the second background item.
C5_Witness ==
    /\ lastMsg.type = "key" /\ lastMsg.key = "x"
    /\ m.confirmMode
    /\ m.table.cursor = 1
    /\ m.pendingBGDel = <<bgRay>>

\* C6: from confirm-pending, n and esc return to normal mode with the pending
\* item cleared and no command; y issues the delete of the item captured when
\* the prompt opened and returns to normal mode with the pending item
\* cleared; a delete is issued by no other step, so at most one is issued
\* for a prompt.
C6_ConfirmOnce ==
    [][ /\ (m.confirmMode /\ (Pressed("n") \/ Pressed("esc")))
           => /\ ~m'.confirmMode /\ m'.pendingBGDel = NilItem /\ ~m'.filterActive
              /\ lastCmd' = NoCmd /\ pending' = pending
        /\ (m.confirmMode /\ Pressed("y"))
           => /\ m.pendingBGDel # NilItem /\ m.pendingBGDel = prompt.item
              /\ lastCmd' = deleteBackgroundCmd(prompt.item[1])
              /\ pending' = pending (+) SetToBag({lastCmd'})
              /\ ~m'.confirmMode /\ m'.pendingBGDel = NilItem /\ ~m'.filterActive
        /\ (nEvents' = nEvents + 1 /\ lastCmd'.kind = "deleteBackground")
           => m.confirmMode /\ Pressed("y")
        /\ prompt'.deletes <= 1 ]_vars

\* The prompt was confirmed, its delete issued, and y pressed once more.
C6_Witness ==
    /\ prompt.deletes = 1
    /\ lastMsg.type = "key" /\ lastMsg.key = "y"
    /\ lastCmd = NoCmd
    /\ ~m.confirmMode

\* C7, as claimed: while confirm-pending every key other than y, n and esc
\* leaves the browser state unchanged and produces no command.
C7_Claimed ==
    [][ \A s \in Keys \ {"y", "n", "esc"} :
          (m.confirmMode /\ Pressed(s))
             => m' = m /\ lastCmd' = NoCmd /\ pending' = pending /\ running' ]_vars

\* C7, amended: while confirm-pending every key other than y, n, esc and
\* ctrl+c leaves the browser state unchanged and produces no command; ctrl+c
\* leaves the browser state unchanged and produces the quit command.
C7_ModalExceptQuit ==
    [][ /\ \A s \in Keys \ {"y", "n", "esc", "ctrl+c"} :
             (m.confirmMode /\ Pressed(s))
                => m' = m /\ lastCmd' = NoCmd /\ pending' = pending /\ running'
        /\ (m.confirmMode /\ Pressed("ctrl+c"))
             => m' = m /\ lastCmd' = Quit /\ pending' = pending /\ ~running' ]_vars

\* The tab key was pressed while confirm-pending, and the prompt is still open.
C7_Witness ==
    /\ m.confirmMode
    /\ m.tab = tabBackground
    /\ lastMsg.type = "key" /\ lastMsg.key = "tab"
    /\ lastCmd = NoCmd

\* C8, as claimed: the key c leaves the filter text empty whether or not
\* filter-editing is active.
C8_Claimed ==
    [][ Pressed("c") => m'.filter = << >> ]_vars

\* C8, amended: in normal mode the key c leaves the filter text empty and the
\* rows of the active tab listing every item of its snapshot (rebuilt when the
\* text was not empty), with no command; while filter-editing it is appended
\* to the filter text, and while confirm-pending it changes nothing.
C8_ClearInNormalMode ==
    [][ /\ (Pressed("c") /\ NormalMode)
           => /\ m'.filter = << >>
              /\ m'.tab = m.tab /\ ~m'.filterActive /\ ~m'.confirmMode
              /\ Len(m'.table.rows) = Len(IF m.tab = tabLogin THEN m.loginItems
                                          ELSE IF m.tab = tabBackground THEN m.bgItems
                                          ELSE m.extItems)
              /\ (m.filter # << >> => m'.table.cursor = (IF Len(m'.table.rows) = 0 THEN -1 ELSE 0))
              /\ (m.filter = << >> => m' = m)
              /\ lastCmd' = NoCmd
        /\ (Pressed("c") /\ m.filterActive /\ ~m.confirmMode)
           => m'.filter = m.filter \o <<"c">> /\ m'.filterActive
        /\ (Pressed("c") /\ m.confirmMode)
           => m' = m ]_vars

\* The filter text "r", which hid the first login item, was cleared by c.
C8_Witness ==
    /\ lastMsg.type = "key" /\ lastMsg.key = "c"
    /\ m.filter = << >>
    /\ m.status = <<"F","i","l","t","e","r"," ","c","l","e","a","r","e","d">>
    /\ m.tab = tabLogin
    /\ m.loginRows = <<0, 1>>

\* C9: processing the completion of an enable or disable action issues a
\* re-aggregation of background items, whether the action succeeded or failed.
C9_Claimed ==
    [][ (nEvents' = nEvents + 1 /\ lastMsg'.type = "actionDone"
            /\ lastMsg'.of.kind = "toggleBackground")
          => lastCmd' = refreshBackgroundCmd ]_vars

\* C10: processing the successful completion of a login-item delete issues a
\* re-aggregation of login items, and that of a background delete one of
\* background items, whatever keys were pressed in between.
C10_Claimed ==
    [][ (nEvents' = nEvents + 1 /\ lastMsg'.type = "actionDone" /\ lastMsg'.ok)
          => /\ lastMsg'.of.kind = "removeLogin" => lastCmd' = refreshLoginCmd
             /\ lastMsg'.of.kind = "deleteBackground" => lastCmd' = refreshBackgroundCmd ]_vars

\* The three snapshots of the browser.
Snapshots(mm) == <<mm.loginItems, mm.bgItems, mm.extItems>>
LoadTypes == {"loginLoaded", "backgroundLoaded", "extensionsLoaded"}

\* C11: whatever the tab and the mode, a successful load completion of a
\* domain sets that domain's snapshot to the items it delivers and leaves the
\* other two as they were, a failed one leaves the three as they were, and so
\* does every step that is not a load completion.
C11_LoadLastWins ==
    [][ nEvents' = nEvents + 1 =>
          /\ (lastMsg'.type = "loginLoaded" /\ lastMsg'.ok)
                => Snapshots(m') = <<lastMsg'.items, m.bgItems, m.extItems>>
          /\ (lastMsg'.type = "backgroundLoaded" /\ lastMsg'.ok)
                => Snapshots(m') = <<m.loginItems, lastMsg'.items, m.extItems>>
          /\ (lastMsg'.type = "extensionsLoaded" /\ lastMsg'.ok)
                => Snapshots(m') = <<m.loginItems, m.bgItems, lastMsg'.items>>
          /\ (lastMsg'.type \in LoadTypes /\ ~lastMsg'.ok) => Snapshots(m') = Snapshots(m)
          /\ lastMsg'.type \notin LoadTypes => Snapshots(m') = Snapshots(m) ]_vars

\* A background load was applied while the extensions tab is shown and a
\* later background load is still in flight.
C11_Witness ==
    /\ lastMsg.type = "backgroundLoaded" /\ lastMsg.ok
    /\ lastMsg.items = <<bgRay>>
    /\ m.bgItems = <<bgRay>>
    /\ m.tab = tabExtensions
    /\ BagIn(refreshBackgroundCmd, pending)

\* C12: a call of deleteBackgroundItem whose unload phase did not abort and
\* whose plist file is already absent returns no error and leaves the disk as
\* it was; a removal that succeeds returns no error; any other answer of
\* os.Remove is returned as a failure naming the removal.
C12_IdempotentRemove ==
    (del.pc = "done" /\ del.removeCalls > 0) =>
        /\ del.removeCalls = 1
        /\ del.removeOutcome = "notexist"
              => del.result.isNil /\ del.absPath \notin del.fs0 /\ fs = del.fs0
        /\ del.removeOutcome = "ok"
              => del.result.isNil /\ del.absPath \in del.fs0 /\ fs = del.fs0 \ {del.absPath}
        /\ del.removeOutcome = "other"
              => /\ ~del.result.isNil
                 /\ HasPrefix(del.result.msg, <<"r","e","m","o","v","e"," ","p","l","i","s","t"," ">> \o del.absPath)
                 /\ fs = del.fs0

\* The service was already stopped and the file already absent: success.
C12_Witness ==
    /\ del.pc = "done"
    /\ ~del.bootoutErr.isNil
    /\ del.removeOutcome = "notexist"
    /\ del.absPath \notin del.fs0
    /\ del.result.isNil

\* C13: background unload of a label that is already unloaded, whose bootout
\* fails with a benign error phrase, returns no error.
C13_Claimed ==
    (cli.op = "unload" /\ cli.pc = "done" /\ cli.bootoutDone
        /\ ~svcLoaded /\ ~cli.bootoutErr.isNil /\ Benign(cli.bootoutErr))
       => cli.result.isNil

\* The disabled-state fetches of a call that were run and failed, and the
\* scanned directories by state.
WantsUser == ToLower(lst.scope) \in {<<"u","s","e","r">>, <<"a","l","l">>}
WantsSystem == ToLower(lst.scope) \in {<<"s","y","s","t","e","m">>, <<"a","l","l">>}
ValidScope == WantsUser \/ WantsSystem
UserFetchFailed == WantsUser /\ lst.env.userDomainOk /\ ~lst.env.disUser.ok
SystemFetchFailed == WantsSystem /\ ~lst.env.disSystem.ok
DirsInState(st) == {id \in ScopeDirIds(lst.scope) : lst.env.dirState[id] = st}
WarningsWith(text) == {i \in 1..Len(lst.warnings) : Contains(lst.warnings[i], text)}

\* C14: a call of listBackgroundItems with a valid scope (and, for the user
\* scope, a home directory) returns no error whatever fetches and directory
\* reads failed: it returns the items of the labelled files it could read,
\* one warning for each failed disabled-state fetch of a requested scope, one
\* warning for each directory that exists and cannot be read, and no other
\* warning, so none for a directory that does not exist.
C14_WarningsNeverAbort ==
    (lst.pc = "done" /\ ValidScope /\ (WantsUser => lst.env.homeOk)) =>
        /\ lst.err.isNil
        /\ Len(lst.items) = Cardinality(LabelledFiles)
        /\ Cardinality(WarningsWith(<<"c","o","u","l","d"," ","n","o","t"," ","r","e","a","d"," ","u","s","e","r"," ","d","i","s","a","b","l","e","d"," ","s","t","a","t","e">>))
              = (IF UserFetchFailed THEN 1 ELSE 0)
        /\ Cardinality(WarningsWith(<<"c","o","u","l","d"," ","n","o","t"," ","r","e","a","d"," ","s","y","s","t","e","m"," ","d","i","s","a","b","l","e","d"," ","s","t","a","t","e">>))
              = (IF SystemFetchFailed THEN 1 ELSE 0)
        /\ \A id \in DirsInState("unreadable") :
              Cardinality(WarningsWith(<<"c","o","u","l","d"," ","n","o","t"," ","r","e","a","d"," ">> \o DirPath(id) \o <<":">>)) = 1
        /\ \A id \in DirsInState("missing") \cup DirsInState("ok") :
              WarningsWith(<<"c","o","u","l","d"," ","n","o","t"," ","r","e","a","d"," ">> \o DirPath(id) \o <<":">>) = {}
        /\ Len(lst.warnings) = (IF UserFetchFailed THEN 1 ELSE 0)
                               + (IF SystemFetchFailed THEN 1 ELSE 0)
                               + Cardinality(DirsInState("unreadable"))

\* A call for all scopes in which the system fetch failed, one directory
\* could not be read and another does not exist: two warnings, and the item
\* of the user directory.
C14_Witness ==
    /\ lst.pc = "done" /\ lst.err.isNil
    /\ WantsUser /\ SystemFetchFailed /\ ~UserFetchFailed
    /\ lst.env.dirState = <<"ok", "missing", "unreadable">>
    /\ Len(lst.warnings) = 2
    /\ Len(lst.items) = 1

\* The login items the flags of the command designate: those whose name is
\* the given name or whose path is the given path made absolute.
Designated ==
    {it \in cli.items0 :
        \/ cli.name # << >> /\ it.Name = cli.name
        \/ cli.path # << >> /\ it.Path = filepathAbs(cli.path, TRUE).path}

MatchCount(mm, t) ==
    IF t = tabLogin
    THEN Cardinality({i \in 1..Len(mm.loginItems) : matchesLoginFilter(mm.loginItems[i], mm.filter)})
    ELSE IF t = tabBackground
    THEN Cardinality({i \in 1..Len(mm.bgItems) : matchesBackgroundFilter(mm.bgItems[i], mm.filter)})
    ELSE Cardinality({i \in 1..Len(mm.extItems) : matchesExtensionsFilter(mm.extItems[i], mm.filter)})

\* The tab a switch key leads to from tab t.
TabAfter(t, s) == IF s = "tab" THEN (t + 1) % 3 ELSE (t + 2) % 3

\* C16: in normal mode a tab switch moves to the next (tab) or previous
\* (shift+tab) of the three tabs, cyclically, shows one row per item of the new
\* tab that matches the filter, and, when the new tab has rows, leaves the
\* cursor where it was, clamped to the last row.
C16_Claimed ==
    [][ \A s \in {"tab", "shift+tab"} :
          (Pressed(s) /\ NormalMode)
             => /\ m'.tab = TabAfter(m.tab, s)
                /\ TabAfter(TabAfter(m.tab, "tab"), "shift+tab") = m.tab
                /\ TabAfter(TabAfter(TabAfter(m.tab, "tab"), "tab"), "tab") = m.tab
                /\ Len(m'.table.rows) = MatchCount(m, m'.tab)
                /\ Len(m'.table.rows) > 0
                      => m'.table.cursor
                            = MinOf({max(m.table.cursor, 0), Len(m'.table.rows) - 1}) ]_vars

\* C17: two runs of an aggregator whose sources return the same records, in
\* whatever orders, return their lists in the same order.
C17_Claimed ==
    (cli.op = "aggregate" /\ cli.done[1] /\ cli.done[2]) => cli.out[1] = cli.out[2]

\* The fixed fields of an item of the active tab, and the indexes of the
\* snapshot items the table shows.
ActiveFields(it) ==
    IF m.tab = tabLogin THEN {it.Name, it.Path}
    ELSE IF m.tab = tabBackground THEN {it.Label, it.Path, it.Scope, it.Kind}
    ELSE {it.Category, it.TeamID, it.BundleID, it.Name, it.State}
Shown == {ActiveRows[k] : k \in 1..Len(ActiveRows)}
SubstringOfAField(it, q) == \E f \in ActiveFields(it) : Contains(ToLower(f), ToLower(q))

\* C18, as claimed: an item of the active tab is shown iff the filter text is
\* empty or is a case-insensitive substring of one of its fixed fields.
C18_Claimed ==
    /\ Len(m.table.rows) = Len(ActiveRows)
    /\ \A i \in 0..(Len(ActiveItems) - 1) :
          i \in Shown <=> (m.filter = << >> \/ SubstringOfAField(ActiveItems[i + 1], m.filter))

\* C18, amended: an item of the active tab is shown iff the filter text, with
\* the white space at its two ends removed, is empty or is a case-insensitive
\* substring of one of its fixed fields.
C18_ShownIffTrimmedMatch ==
    /\ Len(m.table.rows) = Len(ActiveRows)
    /\ \A i \in 0..(Len(ActiveItems) - 1) :
          i \in Shown <=> \/ TrimSpace(m.filter) = << >>
                          \/ SubstringOfAField(ActiveItems[i + 1], TrimSpace(m.filter))

\* The filter text " r" shows the one login item that has an r.
C18_Witness ==
    /\ m.tab = tabLogin
    /\ m.filter = <<" ", "r">>
    /\ ~SubstringOfAField(itRaycast, m.filter)
    /\ m.loginRows = <<1>>

\* Text p occurs in text s at position i, letters compared without regard to case.
OccursAt(s, p, i) ==
    /\ i + Len(p) - 1 <= Len(s)
    /\ \A k \in 1..Len(p) : ToLowerChar(s[i + k - 1]) = ToLowerChar(p[k])
OccursIn(s, p) == \E i \in 1..(Len(s) + 1) : OccursAt(s, p, i)

\* C19: isIgnorableBootoutError is true exactly of the messages in which a
\* phrase of the benign set occurs, letters compared without regard to case;
\* so it is false of "permission denied".
C19_IgnorableIffBenignPhrase ==
    (cli.op = "classify" /\ cli.pc = "done") =>
        /\ cli.result <=> (\E p \in BenignPhrases : OccursIn(cli.msg, p))
        /\ cli.msg = <<"p","e","r","m","i","s","s","i","o","n"," ","d","e","n","i","e","d">> => ~cli.result

\* A message of launchctl, written with capitals, was classified ignorable.
C19_Witness ==
    /\ cli.op = "classify" /\ cli.pc = "done"
    /\ cli.msg = <<"e","x","i","t"," ","s","t","a","t","u","s"," ","3",":"," ","B","o","o","t","-","o","u","t"," ","f","a","i","l","e","d",":"," ","3",":"," ","N","o"," ","s","u","c","h"," ","p","r","o","c","e","s","s","\n">>
    /\ cli.result

\* C20: parseBundleVersion returns (B, V) for the text B, " (", V, ")" when
\* V holds no " ("; and it returns the whole value with an empty version for
\* a value that holds no " (" or does not end with ")".
C20_ParseInvertsFormat ==
    (cli.op = "parse" /\ cli.pc = "done") =>
        /\ (cli.formatted /\ ~OccursIn(cli.v, <<" ","(">>))
              => cli.bundle = cli.b /\ cli.version = cli.v
        /\ (~OccursIn(cli.value, <<" ","(">>) \/ cli.value[Len(cli.value)] # ")")
              => cli.bundle = cli.value /\ cli.version = << >>

\* A bundle ID that itself holds " (" and ")" was recovered with its version.
C20_Witness ==
    /\ cli.op = "parse" /\ cli.pc = "done"
    /\ cli.formatted
    /\ cli.b = <<"a"," ","(","b",")">> /\ cli.v = <<"1",".","9","4",".","1","/","1","0","1",".","9","4",".","1">>
    /\ cli.bundle = cli.b /\ cli.version = cli.v

\* The least width rebuildTable gives each column of a tab.
columnFloors(tab) ==
    IF tab = tabLogin THEN <<20, 8, 30>>
    ELSE IF tab = tabBackground THEN <<8, 8, 8, 8, 22, 25>>
    ELSE <<24, 7, 6, 10, 28, 22, 16>>

RowsFitColumns(t) == \A k \in 1..Len(t.rows) : Len(t.rows[k]) = Len(t.cols)

\* C21: through tab switches in any order and resizes to any width, zero
\* included, with the three snapshots populated: at every step of a rebuild
\* every row in the table has as many cells as the table has columns, the
\* table holds no rows when the columns are set, and when the rebuild is
\* over the table shows the rows of the tab under the columns of the tab,
\* each at least as wide as its floor, as the one-step rebuildTable says.
C21_RebuildKeepsRowsAndColumns ==
    cli.op = "rebuild" =>
        /\ RowsFitColumns(m.table)
        /\ cli.pc \in {"cleared", "columns"} => m.table.rows = << >>
        /\ cli.pc = "done" =>
              /\ Len(m.table.cols) = Len(columnFloors(m.tab))
              /\ \A c \in 1..Len(m.table.cols) :
                    m.table.cols[c].Width >= columnFloors(m.tab)[c]
              /\ m = rebuildUpdate(cli.entry, cli.ev).model

\* After a resize to width zero, a switch from the background tab, its six
\* cell rows in the table, to the extensions tab with its seven cell rows.
C21_Witness ==
    /\ cli.op = "rebuild" /\ cli.pc = "done"
    /\ cli.ev.type = "key"
    /\ m.width = 0
    /\ cli.entry.tab = tabBackground /\ m.tab = tabExtensions
    /\ Len(cli.entry.table.rows) > 0 /\ Len(cli.entry.table.rows[1]) = 6
    /\ Len(m.table.rows) > 0 /\ Len(m.table.rows[1]) = 7

\* C22: in every state the browser reaches from newUIModel by key presses,
\* resizes and completions of its commands, confirm mode is on exactly
\* when a background item is held for deletion, the confirmation text is
\* non-empty exactly then, and confirm mode and filter editing are never
\* on together.
C22_ConfirmHoldsItemApartFromFilter ==
    /\ m.confirmMode <=> (m.pendingBGDel # NilItem)
    /\ m.confirmMode <=> (m.confirmText # << >>)
    /\ ~(m.confirmMode /\ m.filterActive)

\* A load completed while the prompt was open: the item is still held, the
\* text still shown, and filter editing is off.
C22_Witness ==
    /\ lastMsg.type \in {"loginLoaded", "extensionsLoaded"}
    /\ m.confirmMode
    /\ m.pendingBGDel # NilItem
    /\ m.confirmText # << >>
    /\ ~m.filterActive

====
